---- MODULE Spec2Model ----
(***************************************************************************)
(* Model of the Project Gutenberg full-text search query builder           *)
(* (src/search/full_text_search.py: SearchQuery, FullTextSearch) together  *)
(* with the older ranked search entry point (src/FullTextSearchRewrite.py, *)
(* src/Server.py), the OPDS search handler (src/opds/opds.py) and the      *)
(* terminal client (src/CommandPrompt.py).                                 *)
(*                                                                         *)
(* Texts are sequences of tokens; a compiled statement is a record of its  *)
(* shape, its predicate atoms, its ORDER BY keys, LIMIT, OFFSET and bound  *)
(* parameters; the document store is a set of catalog rows on which the    *)
(* statements are evaluated.                                               *)
(***************************************************************************)
EXTENDS Integers, Sequences, FiniteSets, TLC

VARIABLES
    q,          \* the SearchQuery under construction (its dataclass fields)
    catalog,    \* book ids currently in mv_books_dc (the backing store)
    pc,         \* position of FullTextSearch.execute: "idle" | "counted"
    ex,         \* locals of the running execute(): total, total_pages, ...
    trips,      \* store round-trips issued by the current/last execute()
    ret,        \* dictionary returned by the last execute()
    hist,       \* observer: total of the last execute() on these conditions, or -1
    lastOp,     \* observer: the last builder call and its arguments
    rw,         \* state of the older entry point (Server.search)
    call,       \* observer: the arguments of the search() call just made
    prev,       \* observer: the execute() that returned just before, on this catalog
    rs,         \* the last run of ranked_fulltext_search: its CTEs and its result
    engine,     \* the FullTextSearch instance: its _custom_transformer
    cnt,        \* the last FullTextSearch.count(q): its round-trips and its value
    pool,       \* two more queries of the same engine and the lists they hold
    feed,       \* the OPDS search handler and the client following its links
    term        \* the terminal client (ConsoleSearch)

\* the state outside the query builder, FullTextSearch.execute and the older
\* entry point
others == <<engine, cnt, pool, feed, term>>

vars == <<q, catalog, pc, ex, trips, ret, hist, lastOp, rw, call, prev, rs, others>>

----------------------------------------------------------------------------
(* Bounds of the model *)

MaxDirectives == 2
MaxBooks == 3

(* Program constants *)

\* self.limit of ConsoleSearch (10 in the source), scaled to the catalog
ConsoleLimit == 1
DefaultPageSize == 28
MaxPageSize == 100

----------------------------------------------------------------------------
(* Generic helpers *)

Max(a, b) == IF a >= b THEN a ELSE b
Min(a, b) == IF a <= b THEN a ELSE b

NoParams == [n \in {} |-> 0]

\* dict.update: the entries of b override those of a
DictUpdate(a, b) ==
    [n \in (DOMAIN a) \cup (DOMAIN b) |-> IF n \in DOMAIN b THEN b[n] ELSE a[n]]

RECURSIVE MergeAll(_)
MergeAll(conds) ==
    IF conds = <<>> THEN NoParams
    ELSE DictUpdate(MergeAll(SubSeq(conds, 1, Len(conds) - 1)),
                    conds[Len(conds)].params)

SeqToSet(s) == {s[i] : i \in 1..Len(s)}

----------------------------------------------------------------------------
(* Texts: sequences of tokens.  " " is whitespace, "%" the LIKE wildcard,  *)
(* a token starting with "-" a negation, a quoted token a phrase.  The     *)
(* words of a caller's text are separated by " " tokens.                   *)

WordTokens == {"dickens", "twain"}
NegTokens == {"-twain"}
PhraseTokens == {"\"oliver\""}

NegWord(t) == IF t = "-twain" THEN "twain" ELSE t
PhraseWord(t) == IF t = "\"oliver\"" THEN "oliver" ELSE t

RECURSIVE LStrip(_)
LStrip(t) == IF t # <<>> /\ Head(t) = " " THEN LStrip(Tail(t)) ELSE t

RECURSIVE RStrip(_)
RStrip(t) ==
    IF t # <<>> /\ t[Len(t)] = " " THEN RStrip(SubSeq(t, 1, Len(t) - 1)) ELSE t

\* str.strip()
Strip(t) == RStrip(LStrip(t))

\* str.replace("%", "")
RemovePercent(t) == SelectSeq(t, LAMBDA c : c # "%")

\* f"%{txt}%"
Wrap(t) == <<"%">> \o t \o <<"%">>

\* (txt or ""): None and "" both give the empty text
OrEmpty(t) == IF t.none THEN <<>> ELSE t.toks

Txt(toks) == [none |-> FALSE, toks |-> toks]
NoneTxt == [none |-> TRUE, toks |-> <<>>]

\* search_fields: a list of field names, or None
FieldList(l) == [none |-> FALSE, toks |-> l]
NoFieldList == [none |-> TRUE, toks |-> <<>>]

----------------------------------------------------------------------------
(* Enumerations (SearchField, SearchType, OrderBy, SortDirection,          *)
(* Crosswalk) and the column tables of the query builder.                  *)

SearchFields ==
    {"book", "title", "subtitle", "author", "subject", "bookshelf", "attribute"}
SearchTypes == {"fts", "fuzzy", "contains"}
OrderBys == {"relevance", "downloads", "title", "author", "release_date", "random"}
SortDirections == {"asc", "desc"}
Crosswalks == {"full", "pg", "opds", "custom", "mini"}
None == "None"

\* _FIELD_COLS: field -> (fts_col, text_col)
FIELD_COLS(f) ==
    CASE f = "book"      -> <<"tsvec", "book_text">>
      [] f = "title"     -> <<"title_tsvec", "title">>
      [] f = "subtitle"  -> <<"subtitle_tsvec", "subtitle">>
      [] f = "author"    -> <<"author_tsvec", "all_authors">>
      [] f = "subject"   -> <<"subject_tsvec", "all_subjects">>
      [] f = "bookshelf" -> <<"bookshelf_tsvec", "bookshelf_text">>
      [] f = "attribute" -> <<"attribute_tsvec", "attribute_text">>

TRIGRAM_FIELDS == {"book", "title", "subtitle", "author", "subject", "bookshelf"}

\* _ORDER_COLUMNS: order -> (column, default direction, nulls)
ORDER_COLUMNS_KEYS == {"downloads", "title", "author", "release_date", "random"}
ORDER_COLUMNS(o) ==
    CASE o = "downloads"    -> <<"downloads", "desc", None>>
      [] o = "title"        -> <<"title", "asc", None>>
      [] o = "author"       -> <<"all_authors", "asc", "LAST">>
      [] o = "release_date" -> <<"release_date", "desc", "LAST">>
      [] o = "random"       -> <<"RANDOM()", None, None>>

\* columns projected by the inner scope of the nested shape (_SUBQUERY)
SUBQUERY_COLS ==
    {"book_id", "title", "all_authors", "all_subjects", "downloads",
     "release_date", "dc", "copyrighted", "lang_codes", "is_audio",
     "max_author_birthyear", "min_author_birthyear",
     "max_author_deathyear", "min_author_deathyear", "locc_codes",
     "tsvec", "title_tsvec", "subtitle_tsvec", "author_tsvec",
     "subject_tsvec", "bookshelf_tsvec", "attribute_tsvec",
     "book_text", "bookshelf_text", "attribute_text", "subtitle"}

----------------------------------------------------------------------------
(* Conditions.  A predicate atom is [op, col, p]: operator, column and the *)
(* name of the bound parameter it reads ("" when it reads none).           *)

Atom(op, col, p) == [op |-> op, col |-> col, p |-> p]

Digit(i) == <<"0", "1", "2", "3", "4", "5", "6", "7", "8", "9">>[i + 1]

Lower(w) == CASE w = "OR" -> "or" [] w = "AND" -> "and" [] w = "EN" -> "en" [] OTHER -> w

\* re.findall(r'"([^"]+)"', txt), each phrase stripped and kept when non-empty
FuzzyPhrases(txt) ==
    LET ph == SelectSeq(txt, LAMBDA t : t \in PhraseTokens)
    IN  [i \in 1..Len(ph) |-> PhraseWord(ph[i])]

\* re.findall(r"-(\S+)", txt) on the text without its phrases
FuzzyNegations(txt) ==
    LET ng == SelectSeq(txt, LAMBDA t : t \in NegTokens)
    IN  [i \in 1..Len(ng) |-> NegWord(ng[i])]

\* txt.split() on what is left, without "or" and "and"
FuzzyWords(txt) ==
    SelectSeq(txt, LAMBDA t : /\ t \notin PhraseTokens
                               /\ t \notin NegTokens
                               /\ t # " "
                               /\ Lower(t) \notin {"or", "and"})

\* the (prefix, operator, value) of each fuzzy condition, in emission order
FuzzyEntries(txt) ==
    LET ph == FuzzyPhrases(txt)
        wd == FuzzyWords(txt)
        ng == FuzzyNegations(txt)
    IN  [i \in 1..Len(ph) |-> [pre |-> "phrase_", op |-> "ilike", val |-> Wrap(<<ph[i]>>)]]
        \o [i \in 1..Len(wd) |-> [pre |-> "word_", op |-> "wsim", val |-> <<wd[i]>>]]
        \o [i \in 1..Len(ng) |-> [pre |-> "neg_", op |-> "not_ilike", val |-> Wrap(<<ng[i]>>)]]

\* SearchQuery._parse_fuzzy_query: <<conditions, params>>
ParseFuzzyQuery(txt, text_col) ==
    LET es == FuzzyEntries(txt)
        name(i) == es[i].pre \o Digit(i - 1)
    IN  IF es = <<>>
        THEN << <<Atom("wsim", text_col, "q")>>, "q" :> txt >>
        ELSE << [i \in 1..Len(es) |-> Atom(es[i].op, text_col, name(i))],
                DictUpdate("q" :> txt,
                           [n \in {name(i) : i \in 1..Len(es)} |->
                               es[CHOOSE i \in 1..Len(es) : name(i) = n].val]) >>

SearchCond(sql, params, col) == [sql |-> sql, params |-> params, col |-> col]
FilterCond(sql, params) == [sql |-> <<sql>>, params |-> params]

\* search() testing the text for emptiness before stripping it
searchNoStrip(qq, txtIn, field, search_type) ==
    LET txt == OrEmpty(txtIn)
        fts_col == FIELD_COLS(field)[1]
        text_col == FIELD_COLS(field)[2]
        use_trigram == field \in TRIGRAM_FIELDS
        fz == ParseFuzzyQuery(txt, text_col)
    IN  IF txt = <<>> THEN qq
        ELSE IF search_type = "fts" \/ ~use_trigram
        THEN [qq EXCEPT !.search =
                Append(@, SearchCond(<<Atom("fts", fts_col, "q")>>, "q" :> txt, fts_col))]
        ELSE IF search_type = "fuzzy"
        THEN [qq EXCEPT !.search = Append(@, SearchCond(fz[1], fz[2], text_col))]
        ELSE [qq EXCEPT !.search =
                Append(@, SearchCond(<<Atom("ilike", text_col, "q")>>,
                                     "q" :> Wrap(txt), text_col))]

\* SearchQuery.search: the query after search(txt, field, search_type)
search(qq, txtIn, field, search_type) ==
    LET txt == Strip(OrEmpty(txtIn))
        fts_col == FIELD_COLS(field)[1]
        text_col == FIELD_COLS(field)[2]
        use_trigram == field \in TRIGRAM_FIELDS
        fz == ParseFuzzyQuery(txt, text_col)
    IN  IF txt = <<>> THEN qq
        ELSE IF search_type = "fts" \/ ~use_trigram
        THEN [qq EXCEPT !.search =
                Append(@, SearchCond(<<Atom("fts", fts_col, "q")>>, "q" :> txt, fts_col))]
        ELSE IF search_type = "fuzzy"
        THEN IF fz[1] # <<>>
             THEN [qq EXCEPT !.search = Append(@, SearchCond(fz[1], fz[2], text_col))]
             ELSE qq
        ELSE [qq EXCEPT !.search =
                Append(@, SearchCond(<<Atom("ilike", text_col, "q")>>,
                                     "q" :> Wrap(txt), text_col))]

----------------------------------------------------------------------------
(* Filter directives: the condition each method appends to _filter.        *)

etext(nr) == FilterCond(Atom("eq", "book_id", "id"), "id" :> nr)
etexts(nrs) == FilterCond(Atom("any", "book_id", "ids"), "ids" :> nrs)
downloads_gte(n) == FilterCond(Atom("ge", "downloads", "dl"), "dl" :> n)
downloads_lte(n) == FilterCond(Atom("le", "downloads", "dl"), "dl" :> n)
public_domain == FilterCond(Atom("is0", "copyrighted", ""), NoParams)
copyrighted == FilterCond(Atom("is1", "copyrighted", ""), NoParams)
lang(code) == FilterCond(Atom("arr_has", "lang_codes", "lang"), "lang" :> Lower(code))
text_only == FilterCond(Atom("is0", "is_audio", ""), NoParams)
audiobook == FilterCond(Atom("is1", "is_audio", ""), NoParams)
author_born_after(year) == FilterCond(Atom("ge", "max_author_birthyear", "y"), "y" :> year)
author_born_before(year) == FilterCond(Atom("le", "min_author_birthyear", "y"), "y" :> year)
author_died_after(year) == FilterCond(Atom("ge", "max_author_deathyear", "y"), "y" :> year)
author_died_before(year) == FilterCond(Atom("le", "min_author_deathyear", "y"), "y" :> year)
released_after(date) == FilterCond(Atom("ge", "release_date", "d"), "d" :> date)
released_before(date) == FilterCond(Atom("le", "release_date", "d"), "d" :> date)
locc(code) ==
    FilterCond(Atom("exists_locc_like", "book_id", "locc_pattern"),
               "locc_pattern" :> code \o <<"%">>)
\* the role, a string given as its pieces, is pasted into the JSON literal
has_contributor(role) ==
    FilterCond(Atom("creators_contains", "dc", "j"),
               "j" :> <<"[{\"role\":\"">> \o role \o <<"\"}]">>)
file_type(ft) ==
    FilterCond(Atom("format_contains", "dc", "ft"), "ft" :> <<"[{\"mediatype\":\"", ft, "\"}]">>)
author_id(aid) ==
    FilterCond(Atom("creators_contains", "dc", "aid"), "aid" :> <<"[{\"id\":", Digit(aid), "}]">>)
subject_id(sid) == FilterCond(Atom("exists_subject", "book_id", "sid"), "sid" :> sid)
bookshelf_id(bid) == FilterCond(Atom("exists_bookshelf", "book_id", "bid"), "bid" :> bid)
encoding(enc) ==
    FilterCond(Atom("format_contains", "dc", "enc"), "enc" :> <<"[{\"encoding\":\"", enc, "\"}]">>)
\* where(sql, **params): a raw predicate "<col> ILIKE :<name>" with its one parameter
where(col, name, value) == FilterCond(Atom("ilike", col, name), name :> value)

----------------------------------------------------------------------------
(* The catalog: rows of mv_books_dc with the relations the EXISTS          *)
(* sub-selects read.  Row i is fixed; the store holds a set of row ids.    *)

BookIds == 1..MaxBooks

Row(i) ==
    [book_id |-> i,
     downloads |-> i \div 2,
     title |-> i % 3,
     all_authors |-> i % 2,
     release_date |-> i % 3,
     copyrighted |-> i % 2,
     is_audio |-> IF i % 3 = 0 THEN 1 ELSE 0,
     lang_codes |-> IF i % 2 = 0 THEN {"en"} ELSE {"en", "fr"},
     max_author_birthyear |-> 1800 + i,
     min_author_birthyear |-> 1800 + (i \div 2),
     max_author_deathyear |-> 1870 + i,
     min_author_deathyear |-> 1870 + (i \div 2),
     loccs |-> IF i % 2 = 0 THEN {<<"P", "R">>} ELSE {<<"P", "S">>},
     creators |-> {[role |-> IF i % 2 = 0 THEN "Editor" ELSE "Author", id |-> Digit(i % 3)]},
     format |-> {[mediatype |-> IF i % 2 = 0 THEN "text/plain" ELSE "application/pdf",
                  encoding |-> IF i % 3 = 0 THEN "utf-8" ELSE "us-ascii"]},
     subjects |-> {i % 3},
     bookshelves |-> {i % 2}]

\* the words indexed (tsvector) or stored (text) in a searchable column
ColWords(r, col) ==
    LET authors == IF r.book_id % 2 = 1 THEN {"dickens"} ELSE {"twain"}
        titles == IF r.book_id % 3 = 0 THEN {"oliver", "twain"} ELSE {"oliver"}
    IN  CASE col \in {"author_tsvec", "all_authors"} -> authors
          [] col \in {"title_tsvec", "title"} -> titles
          [] col \in {"tsvec", "book_text"} -> authors \cup titles
          [] OTHER -> IF r.book_id <= 2 THEN {"dickens"} ELSE {}

\* the words a text asks for, and the words it excludes
Wanted(t) ==
    {PhraseWord(t[i]) : i \in {j \in 1..Len(t) : t[j] \notin NegTokens \cup {" ", "%"}}}
Unwanted(t) == {NegWord(t[i]) : i \in {j \in 1..Len(t) : t[j] \in NegTokens}}

\* col @@ websearch_to_tsquery('english', :p)
FtsMatch(words, t) ==
    /\ Wanted(t) \cup Unwanted(t) # {}
    /\ Wanted(t) \subseteq words
    /\ Unwanted(t) \cap words = {}

\* col ILIKE :p, the pattern being %...%
IlikeMatch(words, t) == SeqToSet(RemovePercent(t)) \ {" "} \subseteq words

\* :p <% col (trigram word similarity above the threshold)
WordSimilar(words, t) == \E w \in SeqToSet(t) : w \in words

\* lc.pk LIKE :p, the pattern being <prefix>%
LikePrefix(code, pat) ==
    LET pre == RemovePercent(pat)
    IN  Len(pre) <= Len(code) /\ SubSeq(code, 1, Len(pre)) = pre

\* the piece of a string that closes the role value and its object and
\* opens the role value of another object
JsonBreak == "\"},{\"role\":\""

RECURSIVE SplitOn(_, _)
SplitOn(t, sep) ==
    IF \A i \in 1..Len(t) : t[i] # sep THEN {t}
    ELSE LET i == CHOOSE k \in 1..Len(t) : t[k] = sep /\ \A m \in 1..(k - 1) : t[m] # sep
         IN  {SubSeq(t, 1, i - 1)} \cup SplitOn(SubSeq(t, i + 1, Len(t)), sep)

\* CAST(:j AS jsonb) of a literal [{"role":"..."}]: the role values of the
\* objects of the array the store reads from it
JsonRoles(j) == SplitOn(SubSeq(j, 2, Len(j) - 1), JsonBreak)

\* dc->'creators' @> CAST(:p AS jsonb) and dc->'format' @> CAST(:p AS jsonb):
\* every object of the literal is contained in an element of the column
JsonContains(elems, j) ==
    CASE j[1] = "[{\"role\":\"" ->
            \A role \in JsonRoles(j) : \E e \in elems : <<e.role>> = role
      [] j[1] = "[{\"id\":" -> \E e \in elems : e.id = j[2]
      [] j[1] = "[{\"mediatype\":\"" -> \E e \in elems : e.mediatype = j[2]
      [] j[1] = "[{\"encoding\":\"" -> \E e \in elems : e.encoding = j[2]
      [] OTHER -> FALSE

\* whether row r satisfies one predicate atom under the bound parameters
Holds(a, params, r) ==
    CASE a.op = "fts" -> FtsMatch(ColWords(r, a.col), params[a.p])
      [] a.op = "ilike" -> IlikeMatch(ColWords(r, a.col), params[a.p])
      [] a.op = "not_ilike" -> ~IlikeMatch(ColWords(r, a.col), params[a.p])
      [] a.op = "wsim" -> WordSimilar(ColWords(r, a.col), params[a.p])
      [] a.op = "eq" -> r[a.col] = params[a.p]
      [] a.op = "any" -> r[a.col] \in params[a.p]
      [] a.op = "ge" -> r[a.col] >= params[a.p]
      [] a.op = "le" -> r[a.col] <= params[a.p]
      [] a.op = "is0" -> r[a.col] = 0
      [] a.op = "is1" -> r[a.col] = 1
      [] a.op = "arr_has" -> params[a.p] \in r[a.col]
      [] a.op = "exists_locc_like" -> \E c \in r.loccs : LikePrefix(c, params[a.p])
      [] a.op = "exists_subject" -> params[a.p] \in r.subjects
      [] a.op = "exists_bookshelf" -> params[a.p] \in r.bookshelves
      [] a.op = "creators_contains" -> JsonContains(r.creators, params[a.p])
      [] a.op = "format_contains" -> JsonContains(r.format, params[a.p])

\* a condition (its atoms joined by AND) under the given parameters
CondHolds(c, params, r) == \A i \in 1..Len(c.sql) : Holds(c.sql[i], params, r)

----------------------------------------------------------------------------
(* SQL building: SearchQuery._params, _order_sql, build, build_count.      *)

\* FullTextSearch.query(crosswalk): a fresh SearchQuery
query(cw) ==
    [search |-> <<>>, filter |-> <<>>, order |-> "relevance", sort_dir |-> None,
     page |-> 1, page_size |-> DefaultPageSize, crosswalk |-> cw]

\* SearchQuery._params: the conditions' parameters merged into one dict,
\* search conditions first, then filter conditions, later entries winning
Params(qq) == DictUpdate(MergeAll(qq.search), MergeAll(qq.filter))

OrderKey(expr, col, p, dir, nulls) ==
    [expr |-> expr, col |-> col, p |-> p, dir |-> dir, nulls |-> nulls]

\* _order_sql moving the search text from q to rank_q instead of copying it
OrderSqlMoveQ(qq, params) ==
    IF qq.order = "relevance" /\ qq.search # <<>>
    THEN LET last == qq.search[Len(qq.search)]
             rest == [n \in (DOMAIN params) \ {"q"} |-> params[n]]
         IN  << << OrderKey("ts_rank_cd", last.col, "rank_q", "desc", None),
                   OrderKey("col", "downloads", "", "desc", None) >>,
                DictUpdate(rest, "rank_q" :> RemovePercent(last.params["q"])) >>
    ELSE << <<OrderKey("col", "downloads", "", "desc", None)>>, params >>

\* _order_sql ranking by the first search directive instead of the last
OrderSqlFirstSearch(qq, params) ==
    IF qq.order = "relevance" /\ qq.search # <<>>
    THEN LET first == qq.search[1]
             p2 == DictUpdate(params, "rank_q" :> RemovePercent(first.params["q"]))
             fuzzy == \E i \in 1..Len(first.sql) :
                          first.sql[i].op \in {"wsim", "ilike", "not_ilike"}
         IN  << << OrderKey(IF fuzzy THEN "word_similarity" ELSE "ts_rank_cd",
                            first.col, "rank_q", "desc", None),
                   OrderKey("col", "downloads", "", "desc", None) >>, p2 >>
    ELSE IF qq.order = "random"
    THEN << <<OrderKey("random", "", "", None, None)>>, params >>
    ELSE IF qq.order \notin ORDER_COLUMNS_KEYS
    THEN << <<OrderKey("col", "downloads", "", "desc", None)>>, params >>
    ELSE LET oc == ORDER_COLUMNS(qq.order)
             direction == IF qq.sort_dir # None THEN qq.sort_dir ELSE oc[2]
         IN  << <<OrderKey("col", oc[1], "", direction, oc[3])>>, params >>

\* _order_sql falling back to the book identifier when there is nothing to rank
OrderSqlFallbackId(qq, params) ==
    IF qq.order = "relevance" /\ qq.search # <<>>
    THEN LET last == qq.search[Len(qq.search)]
             p2 == DictUpdate(params, "rank_q" :> RemovePercent(last.params["q"]))
             fuzzy == \E i \in 1..Len(last.sql) :
                          last.sql[i].op \in {"wsim", "ilike", "not_ilike"}
         IN  << << OrderKey(IF fuzzy THEN "word_similarity" ELSE "ts_rank_cd",
                            last.col, "rank_q", "desc", None),
                   OrderKey("col", "downloads", "", "desc", None) >>, p2 >>
    ELSE IF qq.order = "random"
    THEN << <<OrderKey("random", "", "", None, None)>>, params >>
    ELSE IF qq.order \notin ORDER_COLUMNS_KEYS
    THEN << <<OrderKey("col", "book_id", "", "asc", None)>>, params >>
    ELSE LET oc == ORDER_COLUMNS(qq.order)
             direction == IF qq.sort_dir # None THEN qq.sort_dir ELSE oc[2]
         IN  << <<OrderKey("col", oc[1], "", direction, oc[3])>>, params >>

\* SearchQuery._order_sql(params): <<ORDER BY keys, params as it leaves them>>
OrderSql(qq, params) ==
    IF qq.order = "relevance" /\ qq.search # <<>>
    THEN LET last == qq.search[Len(qq.search)]
             p2 == DictUpdate(params, "rank_q" :> RemovePercent(last.params["q"]))
             fuzzy == \E i \in 1..Len(last.sql) :
                          last.sql[i].op \in {"wsim", "ilike", "not_ilike"}
         IN  << << OrderKey(IF fuzzy THEN "word_similarity" ELSE "ts_rank_cd",
                            last.col, "rank_q", "desc", None),
                   OrderKey("col", "downloads", "", "desc", None) >>, p2 >>
    ELSE IF qq.order = "random"
    THEN << <<OrderKey("random", "", "", None, None)>>, params >>
    ELSE IF qq.order \notin ORDER_COLUMNS_KEYS
    THEN << <<OrderKey("col", "downloads", "", "desc", None)>>, params >>
    ELSE LET oc == ORDER_COLUMNS(qq.order)
             direction == IF qq.sort_dir # None THEN qq.sort_dir ELSE oc[2]
         IN  << <<OrderKey("col", oc[1], "", direction, oc[3])>>, params >>

Sqls(conds) == [i \in 1..Len(conds) |-> conds[i].sql]

\* a FROM/WHERE part that joins search and filter conditions in one scope
ShapeOneScope(qq) ==
    [nested |-> FALSE, inner |-> <<>>, where |-> Sqls(qq.search) \o Sqls(qq.filter)]

\* the FROM/WHERE part shared by build and build_count: one of four shapes
Shape(qq) ==
    IF qq.search # <<>> /\ qq.filter # <<>>
    THEN [nested |-> TRUE, inner |-> Sqls(qq.search), where |-> Sqls(qq.filter)]
    ELSE IF qq.search # <<>>
    THEN [nested |-> FALSE, inner |-> <<>>, where |-> Sqls(qq.search)]
    ELSE IF qq.filter # <<>>
    THEN [nested |-> FALSE, inner |-> <<>>, where |-> Sqls(qq.filter)]
    ELSE [nested |-> FALSE, inner |-> <<>>, where |-> <<>>]

\* the page size and page a statement is compiled with
BuildLimit(qq) == qq.page_size
\* an offset that skips one page too many
BuildOffsetNextPage(qq) == qq.page * qq.page_size
BuildOffset(qq) == (qq.page - 1) * qq.page_size

\* SearchQuery.build: <<fetch statement, params>>
Build(qq) ==
    LET os == OrderSql(qq, Params(qq))
    IN  << [select |-> "rows", from |-> Shape(qq), order |-> os[1],
            limit |-> BuildLimit(qq), offset |-> BuildOffset(qq)],
           os[2] >>

\* SearchQuery.build_count: <<count statement, params>>
BuildCount(qq) ==
    << [select |-> "count", from |-> Shape(qq), order |-> <<>>, limit |-> 0, offset |-> 0],
       Params(qq) >>

----------------------------------------------------------------------------
(* The document store: evaluation of a compiled statement on a catalog.    *)

SqlHolds(sql, params, r) == \A i \in 1..Len(sql) : Holds(sql[i], params, r)

\* rows of the FROM/WHERE part: the inner scope reads mv_books_dc, the
\* outer scope reads only the columns the inner scope projects
Qualifying(from, params, cat) ==
    {i \in cat :
        /\ \A k \in 1..Len(from.inner) : SqlHolds(from.inner[k], params, Row(i))
        /\ \A k \in 1..Len(from.where) :
              /\ from.nested =>
                    \A a \in SeqToSet(from.where[k]) : a.col \in SUBQUERY_COLS
              /\ SqlHolds(from.where[k], params, Row(i))}

\* SELECT COUNT(*) ...
RunCount(stmt, params, cat) == Cardinality(Qualifying(stmt.from, params, cat))

\* ts_rank_cd(col, websearch_to_tsquery(:p)) and word_similarity(:p, col)
Rank(r, col, t) == Cardinality(Wanted(t) \cap ColWords(r, col))

\* the value of one ORDER BY key on a row, larger sorting later
KeyVal(k, params, r) ==
    LET v == CASE k.expr = "col" -> r[k.col]
               [] k.expr \in {"ts_rank_cd", "word_similarity"} -> Rank(r, k.col, params[k.p])
               [] OTHER -> 0
    IN  IF k.dir = "desc" THEN 0 - v ELSE v

\* row a may not come after row b: a's keys are lexicographically smaller
RECURSIVE Before(_, _, _, _)
Before(keys, params, a, b) ==
    IF keys = <<>> THEN FALSE
    ELSE LET ka == KeyVal(Head(keys), params, Row(a))
             kb == KeyVal(Head(keys), params, Row(b))
         IN  ka < kb \/ (ka = kb /\ Before(Tail(keys), params, a, b))

\* every order of the rows S the ORDER BY clause allows (ties and RANDOM()
\* leave the store free)
Orderings(S, keys, params) ==
    {s \in [1..Cardinality(S) -> S] :
        /\ \A i, j \in 1..Cardinality(S) : i # j => s[i] # s[j]
        /\ \A i, j \in 1..Cardinality(S) : i < j => ~Before(keys, params, s[j], s[i])}

\* LIMIT limit OFFSET offset applied to an ordered row list
Slice(ordered, limit, offset) ==
    SubSeq(ordered, offset + 1, Min(offset + limit, Len(ordered)))

----------------------------------------------------------------------------
(* Pagination and configuration of a SearchQuery.                          *)

\* __getitem__ without the upper limit on the page size
getitem2NoUpper(qq, page, size) ==
    [qq EXCEPT !.page = Max(1, page), !.page_size = Max(1, size)]

\* SearchQuery.__getitem__ with a tuple key: q[page, page_size]
getitem2(qq, page, size) ==
    [qq EXCEPT !.page = Max(1, page),
               !.page_size = Max(1, Min(MaxPageSize, size))]

\* SearchQuery.__getitem__ with an int key: q[page]
getitem1(qq, page) == [qq EXCEPT !.page = Max(1, page)]

\* SearchQuery.order_by
order_by(qq, order, direction) == [qq EXCEPT !.order = order, !.sort_dir = direction]

\* SearchQuery.crosswalk
crosswalk(qq, cw) == [qq EXCEPT !.crosswalk = cw]

----------------------------------------------------------------------------
(* FullTextSearch.execute, one store round-trip per step.                  *)

\* total_pages rounded down instead of up
TotalPagesFloor(total, page_size) == Max(1, total \div page_size)
\* total_pages without the lower limit of one page
TotalPagesNoMin(total, page_size) == (total + page_size - 1) \div page_size

\* total_pages = max(1, (total + page_size - 1) // page_size)
TotalPages(total, page_size) == Max(1, (total + page_size - 1) \div page_size)

\* q._page = max(1, min(q._page, total_pages))
ClampPage(page, total_pages) == Max(1, Min(page, total_pages))

\* CROSSWALK_MAP of search/crosswalks.py: the built-in mapping of a mode
CROSSWALK_MAP_KEYS == {"full", "mini", "pg", "opds"}
CROSSWALK_MAP(cw) ==
    CASE cw = "full" -> "crosswalk_full"
      [] cw = "mini" -> "crosswalk_mini"
      [] cw = "pg" -> "crosswalk_pg"
      [] cw = "opds" -> "crosswalk_opds"

\* FullTextSearch._transform raises: CROSSWALK_MAP[cw] is a KeyError
TransformRaises(cw, custom_transformer) ==
    /\ ~(cw = "custom" /\ custom_transformer # None)
    /\ cw \notin CROSSWALK_MAP_KEYS

\* FullTextSearch._transform(row, crosswalk): the row and the function that
\* projected it
Transform(i, cw, custom_transformer) ==
    [book_id |-> i,
     by |-> IF cw = "custom" /\ custom_transformer # None
            THEN custom_transformer
            ELSE CROSSWALK_MAP(cw)]

\* a clamp that always moves the query to the last page
FetchQueryLastPage(qq, total_pages) == [qq EXCEPT !.page = total_pages]

\* a fetch compiled from the requested page, without the clamp
FetchQueryNoClamp(qq, total_pages) == qq

\* the query the fetch statement is compiled from
FetchQuery(qq, total_pages) == [qq EXCEPT !.page = ClampPage(qq.page, total_pages)]

\* a total remembered from the previous execute() instead of counted again
CountTotalCached(qq, cat) ==
    IF hist >= 0 THEN hist ELSE RunCount(BuildCount(qq)[1], BuildCount(qq)[2], cat)

\* the total the count round-trip yields: scalar() or 0
CountTotal(qq, cat) == RunCount(BuildCount(qq)[1], BuildCount(qq)[2], cat)

\* what a call hands back: a result dictionary (valid) or a raised exception
NoRet ==
    [valid |-> FALSE, results |-> <<>>, page |-> 0, page_size |-> 0,
     total |-> 0, total_pages |-> 0, raised |-> "none"]
NoEx ==
    [total |-> 0, total_pages |-> 0, requested |-> 0, prevTotal |-> 0 - 1,
     countCat |-> {}, fetchCat |-> {}, ordered |-> <<>>, failed |-> "none"]
NoHist == 0 - 1
Op(name, a, b) == [op |-> name, a |-> a, b |-> b]
NoCall ==
    [made |-> FALSE, txt |-> NoneTxt, field |-> "book", type |-> "fts",
     directive |-> "none", value |-> <<>>]
NoPrev == [valid |-> FALSE, ret |-> NoRet, trips |-> <<>>]

Trip(st) == [stmt |-> st[1], params |-> st[2]]

\* execute(), first round-trip: compile and run the count statement, derive
\* total_pages and clamp the query's page
ExecuteCount ==
    /\ pc = "idle"
    /\ LET total == CountTotal(q, catalog)
           tp == TotalPages(total, q.page_size)
       IN  /\ q' = FetchQuery(q, tp)
           /\ ex' = [NoEx EXCEPT !.total = total, !.total_pages = tp,
                                 !.requested = q.page, !.prevTotal = hist,
                                 !.countCat = catalog]
    /\ trips' = <<Trip(BuildCount(q))>>
    /\ pc' = "counted"
    /\ ret' = NoRet
    /\ lastOp' = Op("count", 0, 0)
    /\ prev' = IF lastOp.op = "execute" /\ ex.countCat = catalog /\ ex.fetchCat = catalog
               THEN [valid |-> TRUE, ret |-> ret, trips |-> trips]
               ELSE NoPrev
    /\ UNCHANGED <<catalog, hist, rw, rs, others, call>>

\* execute(), second round-trip: compile and run the fetch statement on the
\* clamped page, transform the rows and return the result dictionary
ExecuteFetch ==
    /\ pc = "counted"
    /\ LET b == Build(q)
       IN  \E ordered \in Orderings(Qualifying(b[1].from, b[2], catalog), b[1].order, b[2]) :
              LET rows == Slice(ordered, b[1].limit, b[1].offset)
              IN  /\ IF rows # <<>> /\ TransformRaises(q.crosswalk, engine.custom_transformer)
                     THEN /\ ret' = [NoRet EXCEPT !.raised = "KeyError"]
                          /\ lastOp' = Op("raised", 2, 0)
                     ELSE /\ ret' = [valid |-> TRUE,
                                     results |-> [i \in 1..Len(rows) |->
                                                    Transform(rows[i], q.crosswalk,
                                                              engine.custom_transformer)],
                                     page |-> q.page, page_size |-> q.page_size,
                                     total |-> ex.total, total_pages |-> ex.total_pages,
                                     raised |-> "none"]
                          /\ lastOp' = Op("execute", 0, 0)
                  /\ ex' = [ex EXCEPT !.fetchCat = catalog, !.ordered = ordered]
                  /\ trips' = Append(trips, Trip(b))
    /\ pc' = "idle"
    /\ hist' = ex.total
    /\ UNCHANGED <<q, catalog, rw, rs, others, call, prev>>

\* FullTextSearch.__init__: no custom transformer
NoEngine == [custom_transformer |-> None]

\* FullTextSearch.set_custom_transformer(fn)
set_custom_transformer(eng, fn) == [eng EXCEPT !.custom_transformer = fn]

SetCustomTransformer(fns) ==
    /\ \E fn \in fns : engine' = set_custom_transformer(engine, fn)
    /\ lastOp' = Op("set_custom_transformer", 0, 0)
    /\ UNCHANGED <<q, catalog, pc, ex, trips, ret, hist, rw, rs, call, prev,
                   cnt, pool, feed, term>>

----------------------------------------------------------------------------
(* Two more queries obtained from FullTextSearch.query() of the same       *)
(* engine.  A SearchQuery holds references to its two lists; the lists     *)
(* live in a heap, and a directive appends to the list its query refers to.*)

PoolQueries == {1, 2}

\* one list object for every SearchQuery and field, shared by all instances
\* (a mutable default written as a class attribute)
shared_default(k) == [search_ref |-> 1, filter_ref |-> 2]

\* field(default_factory=list): the k-th SearchQuery gets two new lists
default_factory(k) == [search_ref |-> 2 * k - 1, filter_ref |-> 2 * k]

\* FullTextSearch.query(crosswalk) making the k-th SearchQuery
NewQuery(k, cw) ==
    [search_ref |-> default_factory(k).search_ref,
     filter_ref |-> default_factory(k).filter_ref,
     order |-> query(cw).order, sort_dir |-> query(cw).sort_dir,
     page |-> query(cw).page, page_size |-> query(cw).page_size,
     crosswalk |-> query(cw).crosswalk]

\* the state after q1 = fts.query() and q2 = fts.query(); alone[k] is an
\* observer: the query k's own calls make of a query used by nobody else
NoPool ==
    [lists |-> [r \in 1..(2 * Cardinality(PoolQueries)) |-> <<>>],
     qs |-> [k \in PoolQueries |-> NewQuery(k, "full")],
     pcs |-> [k \in PoolQueries |-> "idle"],
     totals |-> [k \in PoolQueries |-> <<0, 0>>],
     rets |-> [k \in PoolQueries |-> NoRet],
     alone |-> [k \in PoolQueries |-> query("full")]]

\* the fields of query k as its methods read them
Deref(pl, k) ==
    [search |-> pl.lists[pl.qs[k].search_ref],
     filter |-> pl.lists[pl.qs[k].filter_ref],
     order |-> pl.qs[k].order, sort_dir |-> pl.qs[k].sort_dir,
     page |-> pl.qs[k].page, page_size |-> pl.qs[k].page_size,
     crosswalk |-> pl.qs[k].crosswalk]

\* the writes of a method of query k that leaves its fields as nq
Store(pl, k, nq) ==
    LET r == pl.qs[k]
        l1 == [pl.lists EXCEPT ![r.search_ref] = nq.search]
        l2 == [l1 EXCEPT ![r.filter_ref] = nq.filter]
    IN  [pl EXCEPT !.lists = l2,
                   !.qs[k] = [r EXCEPT !.order = nq.order, !.sort_dir = nq.sort_dir,
                                       !.page = nq.page, !.page_size = nq.page_size,
                                       !.crosswalk = nq.crosswalk]]

PoolFrame ==
    UNCHANGED <<q, catalog, pc, ex, trips, ret, hist, rw, rs, call, prev,
                engine, cnt, feed, term>>

\* a builder call on query k: method(qq) gives the fields the call leaves
PoolCalled(k, name, method(_)) ==
    /\ pool.pcs[k] = "idle"
    /\ pool' = [Store(pool, k, method(Deref(pool, k)))
                   EXCEPT !.alone[k] = method(pool.alone[k]), !.rets[k] = NoRet]
    /\ lastOp' = Op(name, k, 0)
    /\ PoolFrame

PoolSearch(k, texts, fields) ==
    /\ Deref(pool, k).search = <<>>
    /\ \E t \in texts, f \in fields :
          LET method(qq) == search(qq, t, f, "fts")
          IN  PoolCalled(k, "search", method)

PoolFilter(k, conds) ==
    /\ Deref(pool, k).filter = <<>>
    /\ \E c \in conds :
          LET method(qq) == [qq EXCEPT !.filter = Append(@, c)]
          IN  PoolCalled(k, "filter", method)

PoolGetItem2(k, pages, sizes) ==
    \E p \in pages, sz \in sizes :
        LET method(qq) == getitem2(qq, p, sz)
        IN  PoolCalled(k, "getitem2", method)

PoolOrderBy(k, orders) ==
    \E o \in orders :
        LET method(qq) == order_by(qq, o[1], o[2])
        IN  PoolCalled(k, "order_by", method)

\* execute(q_k), first round-trip
PoolExecuteCount(k) ==
    /\ pool.pcs[k] = "idle"
    /\ LET qq == Deref(pool, k)
           total == CountTotal(qq, catalog)
           tp == TotalPages(total, qq.page_size)
           a == pool.alone[k]
       IN  pool' = [Store(pool, k, FetchQuery(qq, tp))
                       EXCEPT !.pcs[k] = "counted", !.totals[k] = <<total, tp>>,
                              !.rets[k] = NoRet,
                              !.alone[k] = FetchQuery(a, TotalPages(CountTotal(a, catalog),
                                                                    a.page_size))]
    /\ lastOp' = Op("count", k, 0)
    /\ PoolFrame

\* execute(q_k), second round-trip and return
PoolExecuteFetch(k) ==
    /\ pool.pcs[k] = "counted"
    /\ LET qq == Deref(pool, k)
           b == Build(qq)
       IN  \E ordered \in Orderings(Qualifying(b[1].from, b[2], catalog), b[1].order, b[2]) :
              LET rows == Slice(ordered, b[1].limit, b[1].offset)
              IN  pool' = [pool EXCEPT
                     !.pcs[k] = "idle",
                     !.rets[k] =
                        IF rows # <<>> /\ TransformRaises(qq.crosswalk, engine.custom_transformer)
                        THEN [NoRet EXCEPT !.raised = "KeyError"]
                        ELSE [valid |-> TRUE,
                              results |-> [i \in 1..Len(rows) |->
                                             Transform(rows[i], qq.crosswalk,
                                                       engine.custom_transformer)],
                              page |-> qq.page, page_size |-> qq.page_size,
                              total |-> pool.totals[k][1],
                              total_pages |-> pool.totals[k][2],
                              raised |-> "none"]]
    /\ lastOp' = Op("execute", k, 0)
    /\ PoolFrame

\* a count that runs the whole execute() and keeps its total
count_by_execute(qq, cat) ==
    LET total == CountTotal(qq, cat)
        after == FetchQuery(qq, TotalPages(total, qq.page_size))
    IN  [q |-> after, total |-> total,
         trips |-> <<Trip(BuildCount(qq)), Trip(Build(after))>>]

\* FullTextSearch.count(q): the query as the call leaves it, the value
\* returned (scalar() or 0) and the statements sent to the store
count(qq, cat) ==
    [q |-> qq, total |-> CountTotal(qq, cat), trips |-> <<Trip(BuildCount(qq))>>]

NoCnt == [made |-> FALSE, total |-> 0, trips |-> <<>>, before |-> query("full"), cat |-> {}]

\* a call of fts.count(q) by the thread that owns q
CountCall ==
    /\ pc = "idle"
    /\ q' = count(q, catalog).q
    /\ cnt' = [made |-> TRUE, total |-> count(q, catalog).total,
               trips |-> count(q, catalog).trips, before |-> q, cat |-> catalog]
    /\ lastOp' = Op("count_only", 0, 0)
    /\ UNCHANGED <<catalog, pc, ex, trips, ret, hist, rw, rs, call, prev,
                   engine, pool, feed, term>>

\* the errors the store client raises when the backend fails
BackendErrors == {"OperationalError", "TimeoutError"}

\* execute(), first round-trip failing: session.execute raises inside the
\* with block, nothing catches it, the lines after it do not run
ExecuteCountFails ==
    /\ pc = "idle"
    /\ \E e \in BackendErrors :
          /\ ex' = [NoEx EXCEPT !.requested = q.page, !.countCat = catalog, !.failed = e]
          /\ ret' = [NoRet EXCEPT !.raised = e]
    /\ trips' = <<Trip(BuildCount(q))>>
    /\ pc' = "idle"
    /\ lastOp' = Op("backend_error", 1, 0)
    /\ prev' = NoPrev
    /\ UNCHANGED <<q, catalog, hist, rw, rs, others, call>>

\* the fetch round-trip failing and being issued a second time
ExecuteFetchFailsRetried ==
    /\ pc = "counted"
    /\ \E e \in BackendErrors :
          /\ ex' = [ex EXCEPT !.fetchCat = catalog, !.failed = e]
          /\ ret' = [NoRet EXCEPT !.raised = e]
    /\ trips' = trips \o <<Trip(Build(q)), Trip(Build(q))>>
    /\ pc' = "idle"
    /\ lastOp' = Op("backend_error", 2, 0)
    /\ UNCHANGED <<q, catalog, hist, rw, rs, others, call, prev>>

\* execute(), second round-trip failing: the count has run and the page has
\* been clamped, session.execute raises, no dictionary is built
ExecuteFetchFails ==
    /\ pc = "counted"
    /\ \E e \in BackendErrors :
          /\ ex' = [ex EXCEPT !.fetchCat = catalog, !.failed = e]
          /\ ret' = [NoRet EXCEPT !.raised = e]
    /\ trips' = Append(trips, Trip(Build(q)))
    /\ pc' = "idle"
    /\ lastOp' = Op("backend_error", 2, 0)
    /\ UNCHANGED <<q, catalog, hist, rw, rs, others, call, prev>>

\* the catalog is changed by another client of the store: one book appears
\* or disappears
CatalogChange ==
    /\ \E i \in BookIds :
          catalog' = IF i \in catalog THEN catalog \ {i} ELSE catalog \cup {i}
    /\ ret' = NoRet
    /\ IF pc = "idle" THEN ex' = NoEx /\ trips' = <<>> ELSE UNCHANGED <<ex, trips>>
    /\ lastOp' = Op("catalog", 0, 0)
    /\ prev' = NoPrev
    /\ UNCHANGED <<q, pc, hist, rw, rs, others, call>>

----------------------------------------------------------------------------
(* Builder calls as actions.  A call is made by the thread that owns the   *)
(* query, so none happens while that thread is inside execute().           *)

Directives(qq) == Len(qq.search) + Len(qq.filter)

\* a builder call: the result and the round-trip log of an earlier execute()
\* are no longer observed
Called(op) ==
    /\ ret' = NoRet
    /\ ex' = NoEx
    /\ trips' = <<>>
    /\ lastOp' = op
    /\ prev' = NoPrev
    /\ UNCHANGED <<catalog, pc, rw, rs, others>>

\* a builder call that raises: the exception reaches the caller
Raised(exc) ==
    /\ ret' = [NoRet EXCEPT !.raised = exc]
    /\ ex' = NoEx
    /\ trips' = <<>>
    /\ lastOp' = Op("raised", 0, 0)
    /\ prev' = NoPrev
    /\ UNCHANGED <<catalog, pc, rw, rs, others>>

\* q.search(txt, field, search_type); _FIELD_COLS[field] raises KeyError for
\* a field that is no SearchField, once the text is known not to be blank
SearchCall(texts, fields, types, room) ==
    /\ pc = "idle"
    /\ room
    /\ \E t \in texts, f \in fields, ty \in types :
          /\ call' = [NoCall EXCEPT !.made = TRUE, !.txt = t, !.field = f, !.type = ty,
                                    !.directive = "search"]
          /\ IF Strip(OrEmpty(t)) # <<>> /\ f \notin SearchFields
             THEN q' = q /\ Raised("KeyError")
             ELSE q' = search(q, t, f, ty) /\ Called(Op("search", 0, 0))
    /\ hist' = NoHist

FilterCall(conds, room) ==
    /\ pc = "idle"
    /\ room
    /\ \E c \in conds : q' = [q EXCEPT !.filter = Append(@, c)]
    /\ hist' = NoHist
    /\ call' = NoCall
    /\ Called(Op("filter", 0, 0))

\* q.has_contributor(role)
HasContributorCall(roles, room) ==
    /\ pc = "idle"
    /\ room
    /\ \E r \in roles :
          /\ q' = [q EXCEPT !.filter = Append(@, has_contributor(r))]
          /\ call' = [NoCall EXCEPT !.directive = "has_contributor", !.value = r]
    /\ hist' = NoHist
    /\ Called(Op("filter", 0, 0))

OrderByCall(orders) ==
    /\ pc = "idle"
    /\ \E o \in orders : q' = order_by(q, o[1], o[2])
    /\ call' = NoCall
    /\ UNCHANGED hist
    /\ Called(Op("order_by", 0, 0))

\* a caller's argument: an integer, or something int() cannot coerce
IntArg(v) == [int |-> TRUE, v |-> v]
NotAnInt == [int |-> FALSE, v |-> 0]

\* q[page, page_size] with arbitrary arguments: int(key[0]) is evaluated and
\* stored before int(key[1]) is, and int() raises ValueError or TypeError
GetItemKey(pageArgs, sizeArgs) ==
    /\ pc = "idle"
    /\ \E p \in pageArgs, s \in sizeArgs :
          IF ~p.int
          THEN q' = q /\ Raised("ValueError")
          ELSE IF ~s.int
          THEN q' = getitem1(q, p.v) /\ Raised("ValueError")
          ELSE q' = getitem2(q, p.v, s.v) /\ Called(Op("getitem2", p.v, s.v))
    /\ call' = NoCall
    /\ UNCHANGED hist

\* q.author_born_after(year) with an arbitrary argument: int(year) raises
AuthorBornAfterCall(yearArgs, room) ==
    /\ pc = "idle"
    /\ room
    /\ \E y \in yearArgs :
          IF ~y.int
          THEN q' = q /\ Raised("ValueError")
          ELSE q' = [q EXCEPT !.filter = Append(@, author_born_after(y.v))]
               /\ Called(Op("filter", 0, 0))
    /\ call' = NoCall
    /\ hist' = NoHist

CrosswalkCall(cws) ==
    /\ pc = "idle"
    /\ \E cw \in cws : q' = crosswalk(q, cw)
    /\ call' = NoCall
    /\ UNCHANGED hist
    /\ Called(Op("crosswalk", 0, 0))

GetItem2(pages, sizes) ==
    /\ pc = "idle"
    /\ \E p \in pages, s \in sizes :
          /\ q' = getitem2(q, p, s)
          /\ Called(Op("getitem2", p, s))
    /\ call' = NoCall
    /\ UNCHANGED hist

GetItem1(pages) ==
    /\ pc = "idle"
    /\ \E p \in pages :
          /\ q' = getitem1(q, p)
          /\ Called(Op("getitem1", p, q.page_size))
    /\ call' = NoCall
    /\ UNCHANGED hist

----------------------------------------------------------------------------
(* The older entry point: Server.search -> ranked_fulltext_search.         *)

NoRw == [called |-> FALSE, page |-> 1, limit |-> 1, offset |-> 0]

\* FullTextSearch.ranked_fulltext_search: the page, LIMIT and OFFSET it compiles
ranked_fulltext_search(limit, page) ==
    LET pg == Max(1, page)
    IN  [called |-> TRUE, page |-> pg, limit |-> limit, offset |-> (pg - 1) * limit]

\* API.search of Server.py: page and limit as handed to ranked_fulltext_search
ServerSearchArgs(page, limit) == <<Max(1, page), Max(1, limit)>>

\* a missing value (SQL NULL) of an integer column
NULL == 0 - 1

\* the row of table books with primary key i
Book(i) ==
    [pk |-> i,
     downloads |-> CASE i = 1 -> NULL [] i = 2 -> 0 [] i = 3 -> 2 [] OTHER -> 1,
     title |-> i,
     copyrighted |-> i % 2,
     tsvec |-> IF i = 1 THEN {"oliver", "dickens"} ELSE {"oliver"}]

\* the rows of table authors and the relation BookAuthor
Author(a) == [id |-> a, tsvec |-> IF a = 2 THEN {"twain"} ELSE {"dickens"}]
BookAuthor(i) == CASE i = 1 -> {1} [] i = 3 -> {1, 3} [] OTHER -> {2}

\* get_base_query_for_field: the rows a book is joined with, the book itself
\* or one row for each of its authors, subjects, attributes or bookshelves
get_base_query_for_field(field, i) ==
    CASE field = "book" -> {[id |-> i, tsvec |-> Book(i).tsvec]}
      [] field = "author" -> {Author(a) : a \in BookAuthor(i)}
      [] field = "subject" -> IF i = 1 THEN {[id |-> 1, tsvec |-> {"dickens"}]} ELSE {}
      [] field = "attribute" -> IF i = 2 THEN {[id |-> 1, tsvec |-> {"oliver"}]} ELSE {}
      [] field = "bookshelf" -> IF i = 3 THEN {[id |-> 1, tsvec |-> {"twain"}]} ELSE {}

\* SEARCH_FIELD_WEIGHTS
SEARCH_FIELD_WEIGHTS_KEYS == {"book", "author", "subject", "attribute", "bookshelf"}
SEARCH_FIELD_WEIGHTS(f) ==
    CASE f = "book" -> "B"
      [] f = "author" -> "A"
      [] f = "subject" -> "C"
      [] f = "attribute" -> "C"
      [] f = "bookshelf" -> "D"

\* ts_rank_cd(setweight(tsvec, w), tsquery) in thousandths: the store weighs
\* a matched word 0.1, 0.2, 0.4 or 1.0 by its label D, C, B or A
ts_rank_cd(tsvec, w, t) ==
    (CASE w = "A" -> 1000 [] w = "B" -> 400 [] w = "C" -> 200 [] OTHER -> 100)
        * Cardinality(Wanted(t) \cap tsvec)

\* apply_filters on one book: exact filters on books columns; a key that is
\* no facet is reported and skipped
apply_filters(i, filters) ==
    \A k \in DOMAIN filters :
        CASE k = "copyrighted" -> <<Digit(Book(i).copyrighted)>> = filters[k]
          [] k = "downloads" ->
                Book(i).downloads # NULL /\ <<Digit(Book(i).downloads)>> = filters[k]
          [] OTHER -> TRUE

\* a rank query whose rows are made distinct (UNION instead of UNION ALL)
rank_q_distinct(field, t, filters) ==
    UNION {{[book_pk |-> i, match_type |-> field, id |-> 0,
             rank |-> ts_rank_cd(r.tsvec, SEARCH_FIELD_WEIGHTS(field), t)] :
               r \in {x \in get_base_query_for_field(field, i) : FtsMatch(x.tsvec, t)}} :
           i \in {j \in BookIds : apply_filters(j, filters)}}

\* rank_q of one field: a row (book_pk, match_type, rank) for every joined
\* row of a filtered book whose tsvec matches; id tells apart rows that are
\* equal in all three columns, which UNION ALL keeps
rank_q(field, t, filters) ==
    UNION {{[book_pk |-> i, match_type |-> field, id |-> r.id,
             rank |-> ts_rank_cd(r.tsvec, SEARCH_FIELD_WEIGHTS(field), t)] :
               r \in {x \in get_base_query_for_field(field, i) : FtsMatch(x.tsvec, t)}} :
           i \in {j \in BookIds : apply_filters(j, filters)}}

\* set(search_fields or [...]) without the fields that have no weight
rank_fields(search_fields) ==
    (IF OrEmpty(search_fields) = <<>> THEN SEARCH_FIELD_WEIGHTS_KEYS
     ELSE SeqToSet(search_fields.toks)) \cap SEARCH_FIELD_WEIGHTS_KEYS

\* rank_queries[0].union_all(*rank_queries[1:])
combined(fields, t, filters) == UNION {rank_q(f, t, filters) : f \in fields}

RECURSIVE SumRank(_)
SumRank(rows) ==
    IF rows = {} THEN 0
    ELSE LET r == CHOOSE x \in rows : TRUE IN r.rank + SumRank(rows \ {r})

\* the CTE ranked_books: GROUP BY book_pk with sum(rank) and
\* array_agg(distinct match_type)
ranked_books(rows) ==
    {[book_pk |-> i,
      text_rank |-> SumRank({r \in rows : r.book_pk = i}),
      match_types |-> {r.match_type : r \in {x \in rows : x.book_pk = i}}] :
        i \in {r.book_pk : r \in rows}}

\* coalesce(v, d)
coalesce(v, d) == IF v = NULL THEN d ELSE v

\* ln(n) in thousandths, n = 1..6
ln(n) == <<0, 693, 1098, 1386, 1609, 1791>>[n]

\* download_boost = 1.5, in tenths
download_boost == 15

\* a fused score that lowers the rank of a popular book
total_rank_penalised(text_rank, downloads) ==
    text_rank - (ln(1 + coalesce(downloads, 0)) * download_boost) \div 10

\* text_rank + ln(1 + coalesce(downloads, 0)) * download_boost
total_rank(text_rank, downloads) ==
    text_rank + (ln(1 + coalesce(downloads, 0)) * download_boost) \div 10

\* every order of the rows S an ORDER BY key DESC allows
OrderingsDesc(S, key(_)) ==
    {s \in [1..Cardinality(S) -> S] :
        /\ \A i, j \in 1..Cardinality(S) : i # j => s[i] # s[j]
        /\ \A i, j \in 1..Cardinality(S) : i < j => key(s[i]) >= key(s[j])}

\* every order in which a statement without ORDER BY may return the rows S
Unordered(S) ==
    {s \in [1..Cardinality(S) -> S] :
        \A i, j \in 1..Cardinality(S) : i # j => s[i] # s[j]}

\* session.query(Book).filter(Book.pk.in_(SELECT book_pk FROM top_books)).all():
\* no ORDER BY, the store returns the books of the page in any order
final_select(top) == Unordered({top[i].book_pk : i \in 1..Len(top)})

NoRs ==
    [called |-> FALSE, text |-> <<>>, fields |-> {}, filters |-> NoParams,
     ranked |-> {}, ranking |-> <<>>, top |-> <<>>, books |-> <<>>,
     raised |-> "none"]

\* ORDER BY downloads DESC, title ASC as one descending key: NULL sorts
\* first under DESC
DownloadsTitleKey(r) ==
    (IF Book(r.book_pk).downloads = NULL THEN MaxBooks + 1 ELSE Book(r.book_pk).downloads)
        * (MaxBooks + 1) - Book(r.book_pk).title

TotalRankKey(r) == r.total_rank

\* the runs of ranked_fulltext_search(query_text, limit, search_fields, page,
\* filters) the store allows: its CTEs, the page and the returned books
ranked_search_runs(query_text, limit, search_fields, page, filters) ==
    LET args == ranked_fulltext_search(limit, page)
        text == Strip(OrEmpty(query_text))
        base == [NoRs EXCEPT !.called = TRUE, !.text = text, !.filters = filters]
    IN  IF limit < 0
        THEN {[base EXCEPT !.raised = "DataError"]}
        ELSE IF text = <<>>
        THEN LET rows == {[book_pk |-> i, text_rank |-> 0, total_rank |-> 0] :
                             i \in {j \in BookIds : apply_filters(j, filters)}}
             IN  {[base EXCEPT !.ranking = o,
                               !.top = Slice(o, args.limit, args.offset),
                               !.books = [i \in 1..Len(Slice(o, args.limit, args.offset)) |->
                                             Slice(o, args.limit, args.offset)[i].book_pk]] :
                     o \in OrderingsDesc(rows, DownloadsTitleKey)}
        ELSE LET fields == rank_fields(search_fields)
                 ranked == ranked_books(combined(fields, text, filters))
                 scored == {[book_pk |-> r.book_pk, text_rank |-> r.text_rank,
                             total_rank |-> total_rank(r.text_rank, Book(r.book_pk).downloads)] :
                               r \in ranked}
             IN  IF fields = {}
                 THEN {[base EXCEPT !.fields = fields]}
                 ELSE UNION {{[base EXCEPT !.fields = fields, !.ranked = ranked,
                                           !.ranking = o,
                                           !.top = Slice(o, args.limit, args.offset),
                                           !.books = b] :
                                 b \in final_select(Slice(o, args.limit, args.offset))} :
                             o \in OrderingsDesc(scored, TotalRankKey)}

\* a call of ranked_fulltext_search
RankedSearch(texts, fieldLists, pages, limits, filterDicts) ==
    /\ \E t \in texts, sf \in fieldLists, p \in pages, l \in limits, fl \in filterDicts :
          /\ rw' = ranked_fulltext_search(l, p)
          /\ rs' \in ranked_search_runs(t, l, sf, p, fl)
          /\ lastOp' = Op("ranked_fulltext_search", p, l)
    /\ UNCHANGED <<q, catalog, pc, ex, trips, ret, hist, call, prev, others>>

\* ranked_fulltext_search called with an empty query text, all fields and no
\* filters
RankedFulltextSearch(pages, limits) ==
    RankedSearch({Txt(<<>>)}, {NoneTxt}, pages, limits, {NoParams})

\* API.search of Server.py with the default query "" and no fields
ServerSearch(pages, limits) ==
    /\ \E p \in pages, l \in limits :
          /\ rw' = ranked_fulltext_search(ServerSearchArgs(p, l)[2], ServerSearchArgs(p, l)[1])
          /\ rs' \in ranked_search_runs(Txt(<<>>), ServerSearchArgs(p, l)[2], NoneTxt,
                                        ServerSearchArgs(p, l)[1], NoParams)
          /\ lastOp' = Op("server_search", p, l)
    /\ UNCHANGED <<q, catalog, pc, ex, trips, ret, hist, call, prev, others>>

----------------------------------------------------------------------------
(* The OPDS search handler (src/opds/opds.py: API.search) and a client     *)
(* that follows the pagination links of the feeds it is served.            *)

\* page and limit as API.search coerces them: both clamped, or both reset
\* when either is not an integer
OpdsPageLimit(page, limit) ==
    IF page.int /\ limit.int
    THEN <<Max(1, page.v), Max(1, Min(MaxPageSize, limit.v))>>
    ELSE <<1, DefaultPageSize>>

\* the query API.search builds from its parameters (field "keyword": the
\* book field, fuzzy; no sort given: relevance with a text, else downloads)
OpdsQuery(args) ==
    LET pl == OpdsPageLimit(args.page, args.limit)
        q0 == query("opds")
        q1 == IF Strip(args.query) # <<>>
              THEN search(q0, Txt(args.query), "book", "fuzzy") ELSE q0
        q2 == IF Strip(args.query) # <<>>
              THEN order_by(q1, "relevance", None) ELSE order_by(q1, "downloads", None)
        q3 == IF args.copyrighted = "true"
              THEN [q2 EXCEPT !.filter = Append(@, copyrighted)]
              ELSE IF args.copyrighted = "false"
              THEN [q2 EXCEPT !.filter = Append(@, public_domain)]
              ELSE q2
    IN  getitem2(q3, pl[1], pl[2])

\* the dictionaries fts.execute(q) may return on a catalog
ExecuteResults(qq, cat) ==
    LET total == CountTotal(qq, cat)
        tp == TotalPages(total, qq.page_size)
        fq == FetchQuery(qq, tp)
        b == Build(fq)
    IN  {[valid |-> TRUE,
          results |-> [i \in 1..Len(Slice(o, b[1].limit, b[1].offset)) |->
                          Transform(Slice(o, b[1].limit, b[1].offset)[i], fq.crosswalk,
                                    engine.custom_transformer)],
          page |-> fq.page, page_size |-> fq.page_size,
          total |-> total, total_pages |-> tp, raised |-> "none"] :
            o \in Orderings(Qualifying(b[1].from, b[2], cat), b[1].order, b[2])}

\* url(p) of API.search: _build_url with the handler's parameters and
\* page p; a parameter left empty is dropped from the query string and is
\* read back as the same empty default
OpdsUrl(args, limit, p) ==
    [path |-> "/opds/search", query |-> args.query, copyrighted |-> args.copyrighted,
     page |-> IntArg(p), limit |-> IntArg(limit)]

\* pagination links that offer "next" and "last" on the last page too
append_pagination_links_inclusive(links, args, result) ==
    links
    \o (IF result.page > 1
        THEN <<[rel |-> "first", href |-> OpdsUrl(args, result.page_size, 1)],
               [rel |-> "previous", href |-> OpdsUrl(args, result.page_size, result.page - 1)]>>
        ELSE <<>>)
    \o (IF result.page <= result.total_pages
        THEN <<[rel |-> "next", href |-> OpdsUrl(args, result.page_size, result.page + 1)],
               [rel |-> "last", href |-> OpdsUrl(args, result.page_size, result.total_pages)]>>
        ELSE <<>>)

\* API._append_pagination_links(links, build_url_fn, result)
append_pagination_links(links, args, result) ==
    links
    \o (IF result.page > 1
        THEN <<[rel |-> "first", href |-> OpdsUrl(args, result.page_size, 1)],
               [rel |-> "previous", href |-> OpdsUrl(args, result.page_size, result.page - 1)]>>
        ELSE <<>>)
    \o (IF result.page < result.total_pages
        THEN <<[rel |-> "next", href |-> OpdsUrl(args, result.page_size, result.page + 1)],
               [rel |-> "last", href |-> OpdsUrl(args, result.page_size, result.total_pages)]>>
        ELSE <<>>)

NoArgs == [query |-> <<>>, copyrighted |-> "", page |-> IntArg(1), limit |-> IntArg(DefaultPageSize)]

\* no feed served yet; start and hops are observers: the page the client's
\* first feed was served at and the "next" links followed since
NoFeed ==
    [made |-> FALSE, args |-> NoArgs, page |-> 0, page_size |-> 0, total |-> 0,
     total_pages |-> 0, publications |-> <<>>, links |-> <<>>, start |-> 0, hops |-> 0]

\* the feed API.search answers a request with
OpdsFeed(args, result) ==
    [made |-> TRUE, args |-> args, page |-> result.page, page_size |-> result.page_size,
     total |-> result.total, total_pages |-> result.total_pages,
     publications |-> result.results,
     links |-> append_pagination_links(
                  <<[rel |-> "self", href |-> OpdsUrl(args, result.page_size, result.page)]>>,
                  args, result),
     start |-> result.page, hops |-> 0]

OpdsFrame ==
    UNCHANGED <<q, catalog, pc, ex, trips, ret, hist, rw, rs, call, prev,
                engine, cnt, pool, term>>

\* GET /opds/search?query=..&page=..&limit=..&copyrighted=..
OpdsSearch(queries, pageArgs, limitArgs, flags) ==
    /\ \E t \in queries, p \in pageArgs, l \in limitArgs, c \in flags :
          LET args == [query |-> t, copyrighted |-> c, page |-> p, limit |-> l]
          IN  \E result \in ExecuteResults(OpdsQuery(args), catalog) :
                 feed' = OpdsFeed(args, result)
    /\ lastOp' = Op("opds_search", 0, 0)
    /\ OpdsFrame

\* the link of a feed with a given rel
LinksOf(f, rel) == {f.links[i] : i \in {j \in 1..Len(f.links) : f.links[j].rel = rel}}

\* the client requests the href of the "next" link of the feed it holds
OpdsFollowNext ==
    /\ feed.made
    /\ \E link \in LinksOf(feed, "next") :
          LET args == [query |-> link.href.query, copyrighted |-> link.href.copyrighted,
                       page |-> link.href.page, limit |-> link.href.limit]
          IN  \E result \in ExecuteResults(OpdsQuery(args), catalog) :
                 feed' = [OpdsFeed(args, result) EXCEPT !.start = feed.start,
                                                        !.hops = feed.hops + 1]
    /\ lastOp' = Op("opds_next", 0, 0)
    /\ OpdsFrame

----------------------------------------------------------------------------
(* The terminal client (src/CommandPrompt.py: ConsoleSearch).  An input    *)
(* line is its words (raw) and the key: value pairs the regular expression *)
(* of parse_query finds in it.                                             *)

SEARCH_FIELDS == {"book", "author", "subject", "attribute", "bookshelf", "title"}
FILTER_FIELDS ==
    {"downloads", "downloads_min", "downloads_max", "release_date",
     "release_date_min", "release_date_max", "copyrighted"}

Line(raw, pairs) == [raw |-> raw, pairs |-> pairs]
Pair(field, value) == [field |-> field, value |-> value]

\* an optional filter dictionary
NoneDict == [none |-> TRUE, d |-> NoParams]
Dict(d) == [none |-> FALSE, d |-> d]
OrNoParams(f) == IF f.none THEN NoParams ELSE f.d

\* " ".join(query_parts)
RECURSIVE JoinParts(_)
JoinParts(parts) ==
    IF parts = <<>> THEN <<>> ELSE Head(parts).value \o JoinParts(Tail(parts))

\* ConsoleSearch.parse_query(s): (search_fields, query_text, filters)
parse_query(s) ==
    LET searches == SelectSeq(s.pairs, LAMBDA p : Lower(p.field) \in SEARCH_FIELDS)
        filterIdx == {i \in 1..Len(s.pairs) :
                         /\ Lower(s.pairs[i].field) \notin SEARCH_FIELDS
                         /\ Lower(s.pairs[i].field) \in FILTER_FIELDS}
        filters == [k \in {Lower(s.pairs[i].field) : i \in filterIdx} |->
                       Strip(s.pairs[CHOOSE i \in filterIdx :
                                        /\ Lower(s.pairs[i].field) = k
                                        /\ \A j \in filterIdx :
                                              Lower(s.pairs[j].field) = k => j <= i].value)]
        search_fields == [i \in 1..Len(searches) |-> Lower(searches[i].field)]
    IN  IF Strip(s.raw) = <<>>
        THEN [fields |-> NoFieldList, query_text |-> NoneTxt, filters |-> NoneDict]
        ELSE IF DOMAIN filters # {} /\ searches = <<>>
        THEN [fields |-> NoFieldList, query_text |-> NoneTxt, filters |-> Dict(filters)]
        ELSE IF searches # <<>>
        THEN [fields |-> FieldList(search_fields), query_text |-> Txt(JoinParts(searches)),
              filters |-> IF DOMAIN filters # {} THEN Dict(filters) ELSE NoneDict]
        ELSE [fields |-> NoFieldList, query_text |-> Txt(Strip(s.raw)), filters |-> NoneDict]

\* not text: None or the empty string
NotText(t) == OrEmpty(t) = <<>>

\* a request sent to ranked_fulltext_search by a key, and its outcome
Req(key, text, fields, filters, page, before, ok, rows) ==
    [key |-> key, text |-> text, fields |-> fields, filters |-> filters, page |-> page,
     before |-> before, ok |-> ok, rows |-> rows]
NoReq == Req("none", NoneTxt, NoFieldList, NoneDict, 0, 0, FALSE, 0)

\* the client when main() starts its loop; submitted and lastReq are
\* observers: the arguments of the search the last accepted ENTER sent, and
\* the last request a key sent
NoTerm ==
    [running |-> TRUE, query_input |-> Line(<<>>, <<>>), fields |-> NoFieldList,
     query_text |-> Txt(<<>>), filters |-> NoneDict, page |-> 1, results |-> <<>>,
     status |-> "",
     submitted |-> [made |-> FALSE, text |-> NoneTxt, fields |-> NoFieldList,
                    filters |-> NoneDict],
     lastReq |-> NoReq]

TermFrame ==
    UNCHANGED <<q, catalog, pc, ex, trips, ret, hist, rw, rs, call, prev,
                engine, cnt, pool, feed>>

\* the keys that edit the input line (printable characters, backspace)
TermType(lines) ==
    /\ term.running
    /\ \E l \in lines : term' = [term EXCEPT !.query_input = l]
    /\ lastOp' = Op("type", 0, 0)
    /\ TermFrame

\* ESC leaves the loop
TermEsc ==
    /\ term.running
    /\ term' = [term EXCEPT !.running = FALSE]
    /\ lastOp' = Op("esc", 0, 0)
    /\ TermFrame

\* ENTER: the line is parsed and, unless it holds neither text nor filters,
\* page 1 of the search is requested with the filters; an exception of the
\* store is not caught and ends main()
TermEnter(stores) ==
    /\ term.running
    /\ LET parsed == parse_query(term.query_input)
           t1 == [term EXCEPT !.fields = parsed.fields, !.query_text = parsed.query_text,
                              !.filters = parsed.filters]
           sent == Txt(OrEmpty(parsed.query_text))
       IN  IF NotText(parsed.query_text) /\ OrNoParams(parsed.filters) = NoParams
           THEN term' = [t1 EXCEPT !.status = "enter a query"]
           ELSE \E up \in stores :
                   IF ~up
                   THEN term' = [t1 EXCEPT !.page = 1, !.running = FALSE,
                                           !.lastReq = Req("enter", sent, parsed.fields,
                                                           parsed.filters, 1, term.page,
                                                           FALSE, 0)]
                   ELSE \E r \in ranked_search_runs(sent, ConsoleLimit, parsed.fields, 1,
                                                    OrNoParams(parsed.filters)) :
                           term' = [t1 EXCEPT !.page = 1, !.results = r.books,
                                              !.status = "results",
                                              !.submitted = [made |-> TRUE, text |-> sent,
                                                             fields |-> parsed.fields,
                                                             filters |-> parsed.filters],
                                              !.lastReq = Req("enter", sent, parsed.fields,
                                                              parsed.filters, 1, term.page,
                                                              TRUE, Len(r.books))]
    /\ lastOp' = Op("enter", 0, 0)
    /\ TermFrame

\* ConsoleSearch.fetch(page): the request carries query_text, limit,
\* search_fields and page, and no filters; an exception gives None
fetch(t, page, up) ==
    IF ~up
    THEN {[ok |-> FALSE, books |-> <<>>,
           req |-> Req("fetch", t.query_text, t.fields, NoneDict, page, t.page, FALSE, 0)]}
    ELSE {[ok |-> TRUE, books |-> r.books,
           req |-> Req("fetch", t.query_text, t.fields, NoneDict, page, t.page, TRUE,
                       Len(r.books))] :
            r \in ranked_search_runs(t.query_text, ConsoleLimit, t.fields, page, NoParams)}

\* KEY_LEFT
TermLeft(stores) ==
    /\ term.running
    /\ IF term.page > 1
       THEN \E up \in stores : \E res \in fetch(term, term.page - 1, up) :
               term' = IF res.ok
                       THEN [term EXCEPT !.page = term.page - 1, !.results = res.books,
                                         !.status = "results",
                                         !.lastReq = [res.req EXCEPT !.key = "left"]]
                       ELSE [term EXCEPT !.status = "error",
                                         !.lastReq = [res.req EXCEPT !.key = "left"]]
       ELSE term' = term
    /\ lastOp' = Op("left", 0, 0)
    /\ TermFrame

\* KEY_RIGHT
TermRight(stores) ==
    /\ term.running
    /\ \E up \in stores : \E res \in fetch(term, term.page + 1, up) :
          term' = IF res.ok /\ Len(res.books) > 0
                  THEN [term EXCEPT !.page = term.page + 1, !.results = res.books,
                                    !.status = "results",
                                    !.lastReq = [res.req EXCEPT !.key = "right"]]
                  ELSE [term EXCEPT !.status = "no more pages",
                                    !.lastReq = [res.req EXCEPT !.key = "right"]]
    /\ lastOp' = Op("right", 0, 0)
    /\ TermFrame

----------------------------------------------------------------------------
(* Inputs of the calls *)

BuildTexts ==
    {NoneTxt, Txt(<<" ">>), Txt(<<"dickens">>), Txt(<<"%", " ", "twain">>),
     Txt(<<"\"oliver\"", " ", "dickens", " ", "-twain">>)}
BuildFields == {"author", "title", "attribute"}
BuildFilters ==
    {etext(2), etexts({1, 3}), downloads_gte(1), downloads_lte(2),
     public_domain, copyrighted, lang("EN"), text_only, audiobook,
     author_born_after(1802), author_born_before(1801),
     author_died_after(1872), author_died_before(1871),
     released_after(1), released_before(1), locc(<<"P">>),
     has_contributor(<<"Editor">>), file_type("text/plain"), author_id(1),
     subject_id(1), bookshelf_id(1), encoding("utf-8"),
     where("title", "t", <<"%", "oliver", "%">>),
     where("title", "rank_q", <<"%", "twain", "%">>)}
BuildOrders ==
    {<<"relevance", None>>, <<"downloads", None>>, <<"title", "desc">>, <<"random", None>>}

ExecTexts == {Txt(<<"dickens">>)}
ExecFilters == {downloads_gte(1)}
ExecOrders == {<<"relevance", None>>, <<"downloads", None>>}
Pages == {0 - 3, 0, 2, 7}
Sizes == {0 - 5, 0, 2, 500}
RwPages == {0, 2}
Limits == {0 - 5, 0, 10, 500}

BlankTexts == {NoneTxt, Txt(<<>>), Txt(<<" ">>), Txt(<<" ", " ">>)}
SearchTexts == BlankTexts \cup {Txt(<<"dickens">>), Txt(<<"%", " ", "twain">>)}
SearchFieldsUsed == {"title", "attribute"}
SearchFilters == {downloads_gte(1), where("title", "rank_q", <<"%", "twain", "%">>)}
BlankPages == {0, 2}
BlankSizes == {2, 500}

PageArgs == {IntArg(0), IntArg(2), NotAnInt}
SizeArgs == {IntArg(2), IntArg(500), NotAnInt}
YearArgs == {IntArg(1802), NotAnInt}
InputFields == {"author", "publisher"}

ContributorRoles == {<<"Editor">>, <<"Author">>, <<"Editor", JsonBreak, "Author">>}

RankTexts == {Txt(<<"oliver">>)}
RankOrders == {<<o, None>> : o \in OrderBys}
RankPages == {1, 2, 5}
RankSizes == {1, 2}

\* input lines: blank, plain text, field searches with and without a
\* filter, a filter alone, a key that is neither
TermLines ==
    {Line(<<>>, <<>>),
     Line(<<"dickens">>, <<>>),
     Line(<<"author:", "dickens">>, <<Pair("author", <<"dickens">>)>>),
     Line(<<"book:", "oliver", "copyrighted:", "1">>,
          <<Pair("book", <<"oliver">>), Pair("copyrighted", <<"1">>)>>),
     Line(<<"copyrighted:", "1">>, <<Pair("copyrighted", <<"1">>)>>),
     Line(<<"isbn:", "oliver">>, <<Pair("isbn", <<"oliver">>)>>)}
Stores == BOOLEAN

OpdsQueries == {<<>>, <<"dickens">>, <<"zzz">>}
OpdsPages == {IntArg(0), IntArg(1), IntArg(2), IntArg(9), NotAnInt}
OpdsLimits == {IntArg(0), IntArg(1), IntArg(2), IntArg(500), NotAnInt}
OpdsFlags == {"", "true", "false"}

PoolPages == {2, 7}
PoolSizes == {2}
PoolOrders == {<<"downloads", None>>}

CustomTransformers == {None, "my_transformer"}
CrosswalkPages == {1, 2, 7}
CrosswalkSizes == {2}


RewriteTexts == {Txt(<<"dickens">>), Txt(<<"oliver">>), Txt(<<" ">>), NoneTxt}
RewriteFieldLists ==
    {NoFieldList, FieldList(<<"author">>), FieldList(<<"book", "author">>),
     FieldList(<<"title">>)}
RewritePages == {1, 2}
RewriteLimits == {1, 2, 10}
RewriteFilters == {NoParams, "copyrighted" :> <<"1">>, "downloads_min" :> <<"1">>}

----------------------------------------------------------------------------
(* Specifications *)

Init ==
    /\ q = query("full")
    /\ catalog = BookIds
    /\ pc = "idle"
    /\ ex = NoEx
    /\ trips = <<>>
    /\ ret = NoRet
    /\ hist = NoHist
    /\ lastOp = Op("query", 0, 0)
    /\ rw = NoRw
    /\ call = NoCall
    /\ prev = NoPrev
    /\ rs = NoRs
    /\ engine = NoEngine
    /\ cnt = NoCnt
    /\ pool = NoPool
    /\ feed = NoFeed
    /\ term = NoTerm

\* the query builder and its compiler
NextBuild ==
    \/ SearchCall(BuildTexts, BuildFields, SearchTypes, Directives(q) < MaxDirectives)
    \/ FilterCall(BuildFilters, Directives(q) < MaxDirectives)
    \/ OrderByCall(BuildOrders)

SpecBuild == Init /\ [][NextBuild]_vars

\* a request's query (at most one search and one filter directive) being
\* paginated and executed against a changing catalog
Next ==
    \/ SearchCall(ExecTexts, {"author"}, {"fts"}, q.search = <<>>)
    \/ FilterCall(ExecFilters, q.filter = <<>>)
    \/ OrderByCall(ExecOrders)
    \/ GetItem2(Pages, Sizes)
    \/ GetItem1(Pages)
    \/ ExecuteCount
    \/ ExecuteFetch
    \/ CatalogChange

Spec == Init /\ [][Next]_vars

\* every entry point that compiles LIMIT and OFFSET, on a fixed catalog
NextEntry ==
    \/ SearchCall(ExecTexts, {"author"}, {"fts"}, q.search = <<>>)
    \/ FilterCall(ExecFilters, q.filter = <<>>)
    \/ GetItem2(Pages, Sizes)
    \/ GetItem1(Pages)
    \/ ExecuteCount
    \/ ExecuteFetch
    \/ RankedFulltextSearch(RwPages, Limits)
    \/ ServerSearch(RwPages, Limits)

SpecEntry == Init /\ [][NextEntry]_vars

\* several search directives with filters among them, compiled under
\* relevance and downloads sort
NextSearch ==
    \/ SearchCall(SearchTexts, SearchFieldsUsed, SearchTypes, Len(q.search) < MaxDirectives)
    \/ FilterCall(SearchFilters, Len(q.filter) < MaxDirectives - 1)
    \/ OrderByCall(ExecOrders)

SpecSearch == Init /\ [][NextSearch]_vars

\* search() with blank and non-blank texts on every field in every mode, on
\* a query whose filters, sort, pagination and projection have been set
NextBlank ==
    \/ SearchCall(BlankTexts \cup ExecTexts, SearchFields, SearchTypes, q.search = <<>>)
    \/ FilterCall(ExecFilters, q.filter = <<>>)
    \/ OrderByCall(ExecOrders)
    \/ CrosswalkCall({"opds"})
    \/ GetItem2(BlankPages, BlankSizes)

SpecBlank == Init /\ [][NextBlank]_vars

\* contributor filters given caller-supplied roles, with other filters
NextContributor ==
    \/ HasContributorCall(ContributorRoles, Len(q.filter) < MaxDirectives)
    \/ FilterCall(ExecFilters, Len(q.filter) < MaxDirectives)
    \/ OrderByCall(ExecOrders)
    \/ GetItem2(BlankPages, BlankSizes)

SpecContributor == Init /\ [][NextContributor]_vars

\* execute() against a backend that may fail at either round-trip
NextFail ==
    \/ SearchCall(ExecTexts, {"author"}, {"fts"}, q.search = <<>>)
    \/ FilterCall(ExecFilters, q.filter = <<>>)
    \/ GetItem2(BlankPages, BlankSizes)
    \/ ExecuteCount
    \/ ExecuteFetch
    \/ ExecuteCountFails
    \/ ExecuteFetchFails

SpecFail == Init /\ [][NextFail]_vars

\* builder calls with arguments of any kind: values int() cannot coerce and
\* fields that are no SearchField
NextInput ==
    \/ SearchCall(BlankTexts \cup ExecTexts, InputFields, {"fts", "fuzzy"}, q.search = <<>>)
    \/ FilterCall(ExecFilters, Len(q.filter) < MaxDirectives)
    \/ AuthorBornAfterCall(YearArgs, Len(q.filter) < MaxDirectives)
    \/ GetItemKey(PageArgs, SizeArgs)
    \/ OrderByCall(ExecOrders)

SpecInput == Init /\ [][NextInput]_vars

\* one query searched on the title, sorted every way, paged and executed
\* repeatedly on a fixed catalog
NextRank ==
    \/ SearchCall(RankTexts, {"title"}, {"fts"}, q.search = <<>>)
    \/ OrderByCall(RankOrders)
    \/ GetItem2(RankPages, RankSizes)
    \/ ExecuteCount
    \/ ExecuteFetch

SpecRank == Init /\ [][NextRank]_vars

\* queries of every projection mode, with and without a registered custom
\* transformer, executed on a fixed catalog
NextCrosswalk ==
    \/ CrosswalkCall(Crosswalks)
    \/ SetCustomTransformer(CustomTransformers)
    \/ FilterCall(ExecFilters \cup {downloads_gte(9)}, q.filter = <<>>)
    \/ GetItem2(CrosswalkPages, CrosswalkSizes)
    \/ ExecuteCount
    \/ ExecuteFetch

SpecCrosswalk == Init /\ [][NextCrosswalk]_vars

\* a query built, paginated, counted and executed on a fixed catalog
NextCount ==
    \/ SearchCall(ExecTexts, {"author"}, {"fts"}, q.search = <<>>)
    \/ FilterCall(ExecFilters, q.filter = <<>>)
    \/ GetItem2(CrosswalkPages, CrosswalkSizes)
    \/ CountCall
    \/ ExecuteCount
    \/ ExecuteFetch

SpecCount == Init /\ [][NextCount]_vars

\* OPDS search requests of any page and limit, and a client following the
\* "next" links, on a fixed catalog
NextOpds ==
    \/ OpdsSearch(OpdsQueries, OpdsPages, OpdsLimits, OpdsFlags)
    \/ OpdsFollowNext

SpecOpds == Init /\ [][NextOpds]_vars

\* the keys of the terminal client in any order, the store answering or
\* failing at each request
NextTerm ==
    \/ TermType(TermLines)
    \/ TermEnter(Stores)
    \/ TermLeft(Stores)
    \/ TermRight(Stores)
    \/ TermEsc

SpecTerm == Init /\ [][NextTerm]_vars

\* two queries of one engine built, paginated and executed in any
\* interleaving, each execute() being two steps
NextPool ==
    \/ \E k \in PoolQueries : PoolSearch(k, ExecTexts, {"author"})
    \/ \E k \in PoolQueries : PoolFilter(k, ExecFilters)
    \/ \E k \in PoolQueries : PoolGetItem2(k, PoolPages, PoolSizes)
    \/ \E k \in PoolQueries : PoolOrderBy(k, PoolOrders)
    \/ \E k \in PoolQueries : PoolExecuteCount(k)
    \/ \E k \in PoolQueries : PoolExecuteFetch(k)

SpecPool == Init /\ [][NextPool]_vars

\* ranked_fulltext_search called with every kind of text, field list, page,
\* limit and filter dictionary
NextRewrite ==
    \/ RankedSearch(RewriteTexts, RewriteFieldLists, RewritePages, RewriteLimits,
                    RewriteFilters)
    \/ ServerSearch(RwPages, Limits)

SpecRewrite == Init /\ [][NextRewrite]_vars

\* the two relevance rankings side by side: ranked_fulltext_search on the
\* book field, and a SearchQuery searched on the title and executed
NextScore ==
    \/ RankedSearch({Txt(<<"oliver">>), Txt(<<"dickens">>)},
                    {FieldList(<<"book">>), NoFieldList}, {1}, {10}, {NoParams})
    \/ SearchCall(RankTexts, {"title"}, {"fts"}, q.search = <<>>)
    \/ ExecuteCount
    \/ ExecuteFetch

SpecScore == Init /\ [][NextScore]_vars

----------------------------------------------------------------------------
(* Properties of the compiler (checked under SpecBuild)                    *)

AllConds(qq) == SeqToSet(qq.search) \cup SeqToSet(qq.filter)

\* rows of cat satisfying every accumulated condition, each condition read
\* with the parameter values its own directive call bound
FlatRows(qq, cat) ==
    {i \in cat : \A c \in AllConds(qq) : CondHolds(c, c.params, Row(i))}

\* C1: on every catalog the rows that qualify under the statements compiled
\* by build() and build_count(), in each of the four shapes, are exactly the
\* rows satisfying the flat conjunction of all search and filter predicates,
\* each evaluated with the value its own directive call was given.
C1_FlatConjunction ==
    \A cat \in SUBSET BookIds :
        /\ Qualifying(Build(q)[1].from, Build(q)[2], cat) = FlatRows(q, cat)
        /\ Qualifying(BuildCount(q)[1].from, BuildCount(q)[2], cat) = FlatRows(q, cat)

\* C2: no two accumulated conditions bind the same parameter name to two
\* different values, so the merge in _params() never overwrites a bound value.
C2_NoParamCollision ==
    \A c1, c2 \in AllConds(q) :
        \A n \in (DOMAIN c1.params) \cap (DOMAIN c2.params) :
            /\ c1.params[n] = c2.params[n]
            /\ Params(q)[n] = c1.params[n]

\* C3 as stated: build_count() and build() return the same parameter set,
\* same names and same values, for every query state and every sort.
C3_SameParams == Build(q)[2] = BuildCount(q)[2]

Ranked(qq) == qq.order = "relevance" /\ qq.search # <<>>

\* C3 as amended: build() and build_count() bind every parameter other than
\* rank_q identically; build() binds rank_q in addition, to the last search
\* directive's text without "%", exactly when relevance sort is active and
\* the query has a search condition, and otherwise the two sets are equal.
C3_SameParamsButRankQ ==
    LET b == Build(q)[2]
        c == BuildCount(q)[2]
    IN  /\ (DOMAIN b) \ {"rank_q"} = (DOMAIN c) \ {"rank_q"}
        /\ \A n \in (DOMAIN c) \ {"rank_q"} : b[n] = c[n]
        /\ Ranked(q) => /\ "rank_q" \in DOMAIN b
                        /\ b["rank_q"] = RemovePercent(q.search[Len(q.search)].params["q"])
        /\ ~Ranked(q) => b = c

\* C3 witness: a relevance-sorted query with a search and a filter condition
\* whose fetch statement carries rank_q beside the shared parameters
C3_Witness ==
    /\ Ranked(q)
    /\ q.filter # <<>>
    /\ Cardinality(DOMAIN BuildCount(q)[2]) >= 2
    /\ "rank_q" \in (DOMAIN Build(q)[2]) \ (DOMAIN BuildCount(q)[2])

\* C14: a query with filter directives, no search directive and the sort
\* left at its default (relevance) is compiled with ORDER BY downloads DESC.
C14_DefaultSortDownloads ==
    (q.search = <<>> /\ q.filter # <<>> /\ q.order = "relevance") =>
        Build(q)[1].order = <<OrderKey("col", "downloads", "", "desc", None)>>

\* C14 witness: only lang("en") and public_domain() were called
C14_Witness ==
    /\ q.search = <<>>
    /\ q.filter = <<lang("EN"), public_domain>>
    /\ q.order = "relevance" /\ q.sort_dir = None
    /\ Build(q)[1].order[1].col = "downloads"
    /\ Build(q)[1].order[1].dir = "desc"

\* the atoms of a condition list in the order they are written in a statement
RECURSIVE Flatten(_)
Flatten(sqls) == IF sqls = <<>> THEN <<>> ELSE Head(sqls) \o Flatten(Tail(sqls))

\* the priority class of a predicate: 1 identity, 2 full-text match,
\* 3 fuzzy match, 4 simple range or equality, 5 date range,
\* 6 containment or relational
PriorityClass(a) ==
    CASE a.op \in {"eq", "any"} /\ a.col = "book_id" -> 1
      [] a.op = "fts" -> 2
      [] a.op \in {"wsim", "ilike", "not_ilike"} -> 3
      [] a.op \in {"ge", "le"} /\ a.col = "release_date" -> 5
      [] a.op \in {"eq", "ge", "le", "is0", "is1"} -> 4
      [] OTHER -> 6

InPriorityOrder(atoms) ==
    \A i, j \in 1..Len(atoms) : i < j => PriorityClass(atoms[i]) <= PriorityClass(atoms[j])

\* C20: in every compiled statement the conditions appear in priority-class
\* order whatever the order of the calls: identity lookups, then full-text
\* match, then fuzzy match, then simple range or equality, then date range,
\* then containment or relational conditions.
C20_PriorityOrder ==
    /\ InPriorityOrder(Flatten(Build(q)[1].from.where))
    /\ InPriorityOrder(Flatten(Build(q)[1].from.inner))
    /\ InPriorityOrder(Flatten(BuildCount(q)[1].from.where))
    /\ InPriorityOrder(Flatten(BuildCount(q)[1].from.inner))

\* C21: whenever a query has a search condition and a filter condition,
\* build() and build_count() both compile two nested scopes: the inner scope
\* over the whole catalog holds all the search conditions and no filter
\* condition, the outer scope over the inner scope's rows holds all the
\* filter conditions and no search condition.
C21_NestedScopes ==
    (q.search # <<>> /\ q.filter # <<>>) =>
        \A from \in {Build(q)[1].from, BuildCount(q)[1].from} :
            /\ from.nested
            /\ from.inner = Sqls(q.search)
            /\ from.where = Sqls(q.filter)
            /\ Qualifying(from, Params(q), BookIds) \subseteq
                  {i \in BookIds : \A k \in 1..Len(q.search) :
                                      SqlHolds(q.search[k].sql, Params(q), Row(i))}

\* C21 witness: a search condition and a filter condition compiled into an
\* inner scope holding the one and an outer scope holding the other
C21_Witness ==
    /\ Len(q.search) = 1 /\ Len(q.filter) = 1
    /\ Build(q)[1].from.nested /\ BuildCount(q)[1].from.nested
    /\ Build(q)[1].from.inner = <<q.search[1].sql>>
    /\ Build(q)[1].from.where = <<q.filter[1].sql>>

----------------------------------------------------------------------------
(* Properties of the contributor filter (checked under SpecContributor)    *)

\* C16: a directive emits its condition with bound parameters only: the
\* statement text of has_contributor is the same for every role, and the
\* role is a bound value, never pasted into a JSON literal: the literal the
\* store reads names one object whose role is the caller's role.
C16_BoundParametersOnly ==
    call.directive = "has_contributor" =>
        LET c == q.filter[Len(q.filter)]
        IN  /\ c.sql = <<Atom("creators_contains", "dc", "j")>>
            /\ Build(q)[1].from.where[Len(q.filter)] = c.sql
            /\ JsonRoles(Build(q)[2]["j"]) = {call.value}

----------------------------------------------------------------------------
(* Properties of search() (checked under SpecSearch and SpecBlank)         *)

\* the text search() keeps of its argument
Stripped(t) == Strip(OrEmpty(t))

\* C13: under relevance sort with at least one search directive the rank
\* expression is built from the text and the column of the search directive
\* added last: a search() call that adds a condition makes the rank
\* expression its own, and no other call (a filter, a sort, a blank search)
\* changes the rank expression of a ranked query.
C13_RankFromLastSearch ==
    [][/\ (call'.made /\ q'.search # q.search /\ Ranked(q')) =>
            LET cols == FIELD_COLS(call'.field)
                fts == call'.type = "fts" \/ call'.field \notin TRIGRAM_FIELDS
                key == Build(q')[1].order[1]
            IN  /\ key.p = "rank_q"
                /\ Build(q')[2]["rank_q"] = RemovePercent(Stripped(call'.txt))
                /\ key.col = IF fts THEN cols[1] ELSE cols[2]
                /\ key.expr = IF fts THEN "ts_rank_cd" ELSE "word_similarity"
       /\ (q'.search = q.search /\ Ranked(q) /\ Ranked(q')) =>
            /\ Build(q')[1].order = Build(q)[1].order
            /\ Build(q')[2]["rank_q"] = Build(q)[2]["rank_q"]]_vars

\* C13 witness: a second search directive on another column with another
\* text has just been added after a filter that binds rank_q itself, and
\* the rank expression reads the second directive's column and text
C13_Witness ==
    /\ call.made
    /\ Ranked(q)
    /\ Len(q.search) = 2
    /\ q.filter # <<>> /\ "rank_q" \in DOMAIN Params(q)
    /\ q.search[1].col # q.search[2].col
    /\ RemovePercent(q.search[1].params["q"]) # RemovePercent(q.search[2].params["q"])
    /\ Build(q)[1].order[1].col = q.search[2].col
    /\ Build(q)[2]["rank_q"] = RemovePercent(Stripped(call.txt))

\* the text is None, empty or whitespace only
Blank(t) == t.none \/ \A i \in 1..Len(t.toks) : t.toks[i] = " "

\* C15: search() with a text that is None, empty or only whitespace, for any
\* field and any search mode, leaves the query unchanged: no condition is
\* added and filters, sort, page, page size and projection keep their values.
C15_BlankSearchNoOp ==
    [][(call'.made /\ Blank(call'.txt)) => q' = q]_vars

\* C15 witness: a whitespace-only fuzzy search was just made on a query with
\* a filter, a sort, a page, a page size and a projection of its own
C15_Witness ==
    /\ call.made /\ call.txt = Txt(<<" ", " ">>) /\ call.type = "fuzzy"
    /\ q.search = <<>>
    /\ q.filter # <<>>
    /\ q.order = "downloads"
    /\ q.page = 2 /\ q.page_size = 100
    /\ q.crosswalk = "opds"

----------------------------------------------------------------------------
(* Properties of execute() (checked under Spec)                            *)

\* execute() has just returned ret
Returned == lastOp.op = "execute" /\ ret.valid

\* the catalog was the same at the count and at the fetch round-trip
Stable == ex.countCat = ex.fetchCat

\* rows of cat that qualify under the statement compiled from qq
QualifyingRows(qq, cat) == Qualifying(BuildCount(qq)[1].from, BuildCount(qq)[2], cat)

ResultIds == [i \in 1..Len(ret.results) |-> ret.results[i].book_id]

\* the least n with n * d >= a
CeilDiv(a, d) == CHOOSE n \in 0..a : n * d >= a /\ \A m \in 0..a : m * d >= a => n <= m

\* the page served for a requested page
Served(requested, total_pages) ==
    IF requested > total_pages THEN total_pages ELSE requested

\* C4: execute() fetches with LIMIT page_size and OFFSET (p-1)*page_size, p
\* being the page after clamping against the count, so on unchanged data the
\* returned rows are items (p-1)*page_size+1 .. min(p*page_size, total) of
\* the ordered list of qualifying rows.
C4_PageOfOrderedRows ==
    (Returned /\ Stable) =>
        LET p == ret.page
            ps == ret.page_size
        IN  /\ p = Served(ex.requested, ret.total_pages)
            /\ trips[2].stmt.limit = ps
            /\ trips[2].stmt.offset = (p - 1) * ps
            /\ Len(ex.ordered) = ret.total
            /\ SeqToSet(ex.ordered) = QualifyingRows(q, ex.fetchCat)
            /\ ResultIds = SubSeq(ex.ordered, (p - 1) * ps + 1, Min(p * ps, ret.total))

\* C4 witness: three qualifying rows, page 2 requested with page size 1: the
\* second item is returned with page 2, total 3, total_pages 3
C4_Witness ==
    /\ Returned /\ Stable
    /\ ex.requested = 2 /\ ret.page = 2 /\ ret.page_size = 1
    /\ ret.total = 3 /\ ret.total_pages = 3
    /\ ResultIds = <<ex.ordered[2]>>

\* C5: with total >= 1 every requested page yields, on unchanged data, a
\* non-empty result of at most page_size rows: a page within [1, total_pages]
\* is served as requested, a page beyond it is served as page total_pages.
C5_NonEmptyPage ==
    (Returned /\ Stable /\ ret.total >= 1) =>
        /\ Len(ret.results) >= 1
        /\ Len(ret.results) <= ret.page_size
        /\ ex.requested <= ret.total_pages => ret.page = ex.requested
        /\ ex.requested > ret.total_pages => ret.page = ret.total_pages

\* C5 witness: page 7 requested of 3 rows in pages of 2 is served as page 2,
\* the last page, with its one row
C5_Witness ==
    /\ Returned /\ Stable
    /\ ex.requested = 7 /\ ret.page_size = 2 /\ ret.total = 3
    /\ ret.page = 2 /\ Len(ret.results) = 1

\* C6: every dictionary returned by execute() has
\* total_pages = max(1, ceil(total / page_size)) and 1 <= page <= total_pages,
\* total being the value the count statement returned.
C6_TotalPages ==
    Returned =>
        /\ ret.total = RunCount(trips[1].stmt, trips[1].params, ex.countCat)
        /\ ret.total_pages = Max(1, CeilDiv(ret.total, ret.page_size))
        /\ 1 <= ret.page
        /\ ret.page <= ret.total_pages

\* C6 witness: a total that is no multiple of the page size
C6_Witness ==
    /\ Returned
    /\ ret.total = 3 /\ ret.page_size = 2 /\ ret.total_pages = 2

\* C7 as stated: when the count statement returns 0, execute() returns
\* page 1, total_pages 1, total 0 and an empty results list, for every
\* requested page and page size.
C7_ZeroTotal ==
    (Returned /\ ret.total = 0) =>
        /\ ret.page = 1
        /\ ret.total_pages = 1
        /\ ret.results = <<>>

\* C7 as amended: when the count statement returns 0, execute() returns
\* page 1, total_pages 1 and total 0 for every requested page and page size,
\* and the results list is empty when the catalog did not change between the
\* count and the fetch round-trip (it never holds more than page_size rows).
C7_ZeroTotalStable ==
    (Returned /\ ret.total = 0) =>
        /\ ret.page = 1
        /\ ret.total_pages = 1
        /\ ret.page_size >= 1
        /\ Len(ret.results) <= ret.page_size
        /\ Stable => ret.results = <<>>

\* C7 witness: page 7 requested of a query that no row satisfies
C7_Witness ==
    /\ Returned /\ Stable
    /\ ret.total = 0 /\ ex.requested = 7
    /\ ret.page = 1 /\ ret.results = <<>>

\* C8: q[page, page_size] stores page = max(1, page) and
\* page_size = max(1, min(100, page_size)); q[page] stores page = max(1, page)
\* and changes nothing else.
C8_GetItemClamps ==
    [][LET a == lastOp'.a
           b == lastOp'.b
           pg == IF a < 1 THEN 1 ELSE a
           sz == IF b < 1 THEN 1 ELSE IF b > 100 THEN 100 ELSE b
       IN  /\ lastOp'.op = "getitem2" => q' = [q EXCEPT !.page = pg, !.page_size = sz]
           /\ lastOp'.op = "getitem1" => q' = [q EXCEPT !.page = pg]]_vars

\* C8 witness: q[-3, 500] has stored page 1 and page size 100
C8_Witness ==
    /\ lastOp = Op("getitem2", 0 - 3, 500)
    /\ q.page = 1
    /\ q.page_size = 100

\* C10: each execute() issues exactly two round-trips, the count statement
\* first and the fetch statement second, both compiled from the query as it
\* is at that call and run on the catalog as it is at that round-trip:
\* nothing of an earlier call is reused.
C10_TwoFreshRoundTrips ==
    /\ pc = "counted" => Len(trips) = 1 /\ trips[1].stmt.select = "count"
    /\ Returned =>
        /\ Len(trips) = 2
        /\ trips[1] = Trip(BuildCount([q EXCEPT !.page = ex.requested]))
        /\ trips[2] = Trip(Build(q))
        /\ trips[1].stmt.select = "count"
        /\ trips[2].stmt.select = "rows"
        /\ ret.total = Cardinality(QualifyingRows(q, ex.countCat))
        /\ SeqToSet(ex.ordered) = QualifyingRows(q, ex.fetchCat)

\* C10 witness: a later execute() of the same conditions reports another
\* total than the call before it, the catalog having changed in between
C10_Witness ==
    /\ Returned
    /\ ex.prevTotal >= 0
    /\ ex.prevTotal # ret.total

----------------------------------------------------------------------------
(* Properties of repeated execution and of the order (under SpecRank)      *)

\* C11: execute() called twice on the same query with no builder call in
\* between, on unchanged data, issues the same count and fetch statements
\* with the same parameters and returns the same dictionary: same rows in the
\* same order, same page, total and total_pages, for every sort and page.
C11_RepeatableExecute ==
    (Returned /\ Stable /\ prev.valid) =>
        /\ trips = prev.trips
        /\ ret = prev.ret

\* the order the claim C12 names: score, downloads descending, title
\* ascending, book identifier ascending
TieBreakKeys(scoreKey) ==
    <<scoreKey,
      OrderKey("col", "downloads", "", "desc", None),
      OrderKey("col", "title", "", "asc", None),
      OrderKey("col", "book_id", "", "asc", None)>>

\* C12: under relevance sort the rows come back in a total order: score
\* descending, then downloads descending, then title ascending, then book
\* identifier ascending, so rows equal in score and downloads always keep
\* the same relative order.
C12_TotalRelevanceOrder ==
    (Returned /\ Stable /\ Ranked(q)) =>
        \A i, j \in 1..Len(ex.ordered) :
            i < j => Before(TieBreakKeys(trips[2].stmt.order[1]), trips[2].params,
                            ex.ordered[i], ex.ordered[j])

----------------------------------------------------------------------------
(* Properties of failures (checked under SpecFail and SpecInput)           *)

\* C17: a backend failure during execute() reaches the caller as the store
\* raised it and nothing is retried: after a failed count no fetch has been
\* issued, after a failed fetch each statement has been issued once, and no
\* result dictionary is returned.
C17_FailurePropagates ==
    /\ ret.valid => ret.raised = "none"
    /\ lastOp.op = "backend_error" =>
          /\ pc = "idle"
          /\ ~ret.valid /\ ret.results = <<>>
          /\ ret.raised \in BackendErrors /\ ret.raised = ex.failed
          /\ lastOp.a = 1 => trips = <<Trip(BuildCount(q))>>
          /\ lastOp.a = 2 =>
                /\ Len(trips) = 2
                /\ trips[1].stmt.select = "count"
                /\ trips[2] = Trip(Build(q))

\* C17 witness: the fetch round-trip of a filtered search has failed after
\* its count round-trip succeeded
C17_Witness ==
    /\ lastOp = Op("backend_error", 2, 0)
    /\ ret.raised = "TimeoutError"
    /\ q.search # <<>> /\ q.filter # <<>>
    /\ Len(trips) = 2

\* C18: a page, page size or year the builder cannot coerce is replaced by a
\* safe default and never raises; the query stays usable and compiles.
C18_NoValueError ==
    /\ ret.raised \notin {"ValueError", "TypeError"}
    /\ q.page >= 1 /\ q.page_size >= 1 /\ q.page_size <= MaxPageSize
    /\ Build(q)[1].limit = q.page_size

\* C19: a search directive naming an unknown field is dropped on its own
\* without raising: the query keeps its other directives and compiles.
C19_UnknownFieldDropped ==
    /\ ret.raised # "KeyError"
    /\ Build(q)[1].from = BuildCount(q)[1].from

----------------------------------------------------------------------------
(* Properties of the ranked search (checked under SpecRewrite, SpecScore)  *)

\* the run ranked a non-empty text over at least one weighted field
RankedRun == rs.called /\ rs.text # <<>> /\ rs.raised = "none" /\ rs.fields # {}

\* the rows of a field a book is joined with and that match the text
MatchingRows(f, i, t) == {x \in get_base_query_for_field(f, i) : FtsMatch(x.tsvec, t)}

\* the rank subscore of a field for a book: the ranks of the field's
\* matching rows of that book, added up
FieldSubscore(f, i, t) ==
    SumRank({[id |-> x.id, rank |-> ts_rank_cd(x.tsvec, SEARCH_FIELD_WEIGHTS(f), t)] :
                x \in MatchingRows(f, i, t)})

\* the searched fields in which a book matched
MatchedFields(i) == {f \in rs.fields : MatchingRows(f, i, rs.text) # {}}

\* C23: in a multi-field ranked search each book appears at most once in the
\* ranked set (and in the ranking and the result drawn from it); its text
\* score is the sum of the rank subscores of exactly the searched fields in
\* which it matched, the set of those fields is kept in its aggregated row,
\* and every book passing the filters that matched in a searched field is
\* ranked.
C23_SummedPerField ==
    RankedRun =>
        /\ \A r1, r2 \in rs.ranked : r1.book_pk = r2.book_pk => r1 = r2
        /\ \A i, j \in 1..Len(rs.ranking) :
              rs.ranking[i].book_pk = rs.ranking[j].book_pk => i = j
        /\ \A i, j \in 1..Len(rs.books) : rs.books[i] = rs.books[j] => i = j
        /\ \A r \in rs.ranked :
              /\ r.match_types = MatchedFields(r.book_pk)
              /\ r.match_types # {}
              /\ r.text_rank =
                    SumRank({[id |-> f, rank |-> FieldSubscore(f, r.book_pk, rs.text)] :
                                f \in MatchedFields(r.book_pk)})
        /\ {r.book_pk : r \in rs.ranked} =
              {i \in BookIds : apply_filters(i, rs.filters) /\ MatchedFields(i) # {}}

\* C23 witness: "dickens" searched in all fields: book 1 matched in three
\* fields and book 3 in the author field through two of its authors
C23_Witness ==
    /\ RankedRun
    /\ rs.text = <<"dickens">>
    /\ \E r \in rs.ranked :
          r.book_pk = 1 /\ r.match_types = {"book", "author", "subject"}
                        /\ r.text_rank = 1600
    /\ \E r \in rs.ranked :
          r.book_pk = 3 /\ r.match_types = {"author"} /\ r.text_rank = 2000

\* the fused score of a returned book
ScoreOf(pk) == (CHOOSE r \in SeqToSet(rs.ranking) : r.book_pk = pk).total_rank

\* C28: for a non-empty query text ranked_fulltext_search(page, limit)
\* returns its books in fused-score descending order, and the list holds
\* exactly the rows at offsets (page-1)*limit .. page*limit-1 of the
\* fused-score ranking of all matching books.
C28_RankedPageInOrder ==
    (RankedRun /\ lastOp.op = "ranked_fulltext_search") =>
        /\ \A i, j \in 1..Len(rs.books) :
              i < j => ScoreOf(rs.books[i]) >= ScoreOf(rs.books[j])
        /\ LET page == Slice(rs.ranking, rw.limit, (rw.page - 1) * rw.limit)
           IN  /\ Len(rs.books) = Len(page)
               /\ SeqToSet(rs.books) = {page[i].book_pk : i \in 1..Len(page)}

\* the download counts a book may have
DownloadCounts == {NULL} \cup (0..MaxBooks)

----------------------------------------------------------------------------
(* Properties of the projection (checked under SpecCrosswalk)              *)

\* the rows the fetch statement of the last execute() returned
FetchedRows == Slice(ex.ordered, q.page_size, (q.page - 1) * q.page_size)

\* C25: for every projection mode a caller can select (full, minimal, PG,
\* OPDS, custom) execute() returns exactly one projection per fetched row, in
\* fetch order: made by the custom transformer when the mode is custom and a
\* transformer is registered, by the mode's built-in mapping otherwise; the
\* selected mode never makes execute() fail.
C25_OneProjectionPerRow ==
    (lastOp.op = "execute" \/ (lastOp.op = "raised" /\ lastOp.a = 2)) =>
        /\ ret.raised = "none"
        /\ ret.valid
        /\ Len(ret.results) = Len(FetchedRows)
        /\ \A i \in 1..Len(ret.results) :
              /\ ret.results[i].book_id = FetchedRows[i]
              /\ (q.crosswalk = "custom" /\ engine.custom_transformer # None) =>
                    ret.results[i].by = engine.custom_transformer
              /\ q.crosswalk # "custom" =>
                    ret.results[i].by = CROSSWALK_MAP(q.crosswalk)

----------------------------------------------------------------------------
(* Properties of queries side by side (checked under SpecPool)             *)

\* the row lists execute() may return for a query on the catalog
PossibleRows(qq) ==
    LET b == Build(qq)
    IN  {Slice(o, b[1].limit, b[1].offset) :
            o \in Orderings(Qualifying(b[1].from, b[2], catalog), b[1].order, b[2])}

\* C24: queries are isolated from one another: for every interleaving of
\* directive calls, pagination settings and execute() calls on two queries
\* obtained from FullTextSearch.query(), the conditions, sort, page and page
\* size each query holds and the results it returns are those its own calls
\* alone produce; no call on one query changes state the other reads.
C24_QueriesIsolated ==
    \A k \in PoolQueries :
        /\ Deref(pool, k) = pool.alone[k]
        /\ pool.rets[k].valid =>
              /\ pool.rets[k].total = CountTotal(pool.alone[k], catalog)
              /\ pool.rets[k].page = pool.alone[k].page
              /\ pool.rets[k].page_size = pool.alone[k].page_size
              /\ [i \in 1..Len(pool.rets[k].results) |-> pool.rets[k].results[i].book_id]
                    \in PossibleRows(pool.alone[k])

\* C24 witness: query 1 has returned a page of its search while query 2,
\* holding a filter and another page size, is between the two round-trips
\* of its execute()
C24_Witness ==
    /\ pool.rets[1].valid /\ pool.rets[1].results # <<>>
    /\ pool.alone[1].search # <<>> /\ pool.alone[1].filter = <<>>
    /\ pool.alone[2].search = <<>> /\ pool.alone[2].filter # <<>>
    /\ pool.pcs[2] = "counted"
    /\ pool.alone[1].page_size # pool.alone[2].page_size

----------------------------------------------------------------------------
(* Properties of the count-only call (checked under SpecCount)             *)

\* C26: count(q) issues only the count statement (one round-trip, no
\* fetch), leaves q unchanged (its page is not clamped), and returns the
\* total execute(q) reports for the same conditions on the same data.
C26_CountOnly ==
    /\ (cnt.made /\ lastOp.op = "count_only") =>
          /\ Len(cnt.trips) = 1
          /\ cnt.trips[1].stmt.select = "count"
          /\ cnt.trips[1] = Trip(BuildCount(cnt.before))
          /\ q = cnt.before
          /\ pc = "idle"
          /\ cnt.total = Cardinality(FlatRows(cnt.before, cnt.cat))
    /\ (cnt.made /\ Returned /\ ex.countCat = cnt.cat
          /\ q.search = cnt.before.search /\ q.filter = cnt.before.filter) =>
          ret.total = cnt.total

\* C26 witness: count(q) has just returned a total, one statement was sent,
\* and the page of q, set beyond the last page, is still the page the
\* caller set
C26_Witness ==
    /\ cnt.made /\ lastOp.op = "count_only"
    /\ cnt.total > 0
    /\ q.search # <<>> /\ q.filter # <<>>
    /\ q.page > TotalPages(cnt.total, q.page_size)
    /\ Len(cnt.trips) = 1

----------------------------------------------------------------------------
(* Frame of execute() (checked under SpecFail)                             *)

\* C27: execute() changes no part of its query except the page, which it
\* only lowers, to total_pages: conditions, sort, sort direction, page size
\* and projection mode are unchanged by both round-trips, a page already
\* within [1, total_pages] leaves the query entirely unchanged, and when the
\* count round-trip fails the page keeps its requested value.
C27_ExecuteFrame ==
    [][ /\ (pc = "idle" /\ pc' = "counted") =>
              /\ q' = [q EXCEPT !.page = Served(q.page, ex'.total_pages)]
              /\ q'.page <= q.page
              /\ (q.page >= 1 /\ q.page <= ex'.total_pages) => q' = q
        /\ (pc = "counted" /\ pc' = "idle") => q' = q
        /\ (lastOp'.op = "backend_error" /\ lastOp'.a = 1) =>
              /\ q' = q
              /\ q'.page = ex'.requested
      ]_vars

\* C27 witness: an execute() that was asked for page 2 of a search with one
\* page has returned, the query now holding page 1 and all it held before
C27_Witness ==
    /\ Returned
    /\ ex.requested = 2 /\ q.page = 1 /\ ex.total_pages = 1
    /\ q.search # <<>> /\ q.filter # <<>>

----------------------------------------------------------------------------
(* Properties of the OPDS feed (checked under SpecOpds)                    *)

HasLink(rel) == LinksOf(feed, rel) # {}
LinkPage(rel) == (CHOOSE l \in LinksOf(feed, rel) : TRUE).href.page.v

\* C29: in every paginated feed "first" and "previous" are present exactly
\* when the served page is > 1, "next" and "last" exactly when it is
\* < total_pages, "next" points to page+1 <= total_pages; so on unchanged
\* data a client following "next" is served one page further at each
\* request, never beyond the last page, and holds a feed without "next"
\* after at most total_pages - page requests.
C29_PaginationLinks ==
    feed.made =>
        /\ HasLink("first") <=> feed.page > 1
        /\ HasLink("previous") <=> feed.page > 1
        /\ HasLink("next") <=> feed.page < feed.total_pages
        /\ HasLink("last") <=> feed.page < feed.total_pages
        /\ \A rel \in {"first", "previous", "next", "last"} :
              Cardinality(LinksOf(feed, rel)) <= 1
        /\ HasLink("first") => LinkPage("first") = 1
        /\ HasLink("previous") => LinkPage("previous") = feed.page - 1
        /\ HasLink("next") => /\ LinkPage("next") = feed.page + 1
                               /\ LinkPage("next") <= feed.total_pages
        /\ HasLink("last") => LinkPage("last") = feed.total_pages
        /\ feed.page >= 1 /\ feed.page <= feed.total_pages
        /\ feed.page = feed.start + feed.hops
        /\ feed.hops <= feed.total_pages - feed.start
        /\ feed.hops = feed.total_pages - feed.start => ~HasLink("next")

\* C29 witness: a client that was served page 1 of 3 has followed "next"
\* twice and holds the last page, with "previous" and without "next"
C29_Witness ==
    /\ feed.made
    /\ feed.start = 1 /\ feed.hops = 2 /\ feed.page = 3 /\ feed.total_pages = 3
    /\ HasLink("previous") /\ HasLink("first")
    /\ ~HasLink("next") /\ ~HasLink("last")

----------------------------------------------------------------------------
(* Properties of the terminal client (checked under SpecTerm)              *)

PageKey == term.lastReq.key \in {"left", "right"}

\* C30: after a search was submitted with ENTER, every LEFT/RIGHT request
\* carries the query text, the search fields and the filters of that
\* search and differs in the page only; the current page changes only when
\* the fetch succeeded (moving right: with at least one row), by one step,
\* and is never below 1.
C30_SameSearchOtherPage ==
    /\ term.page >= 1
    /\ PageKey =>
          term.page = IF term.lastReq.ok /\ (term.lastReq.key = "left" \/ term.lastReq.rows > 0)
                      THEN term.lastReq.page ELSE term.lastReq.before
    /\ PageKey =>
          term.lastReq.page = term.lastReq.before + (IF term.lastReq.key = "left" THEN 0 - 1 ELSE 1)
    /\ (PageKey /\ term.submitted.made) =>
          /\ Strip(OrEmpty(term.lastReq.text)) = Strip(OrEmpty(term.submitted.text))
          /\ OrEmpty(term.lastReq.fields) = OrEmpty(term.submitted.fields)
          /\ OrNoParams(term.lastReq.filters) = OrNoParams(term.submitted.filters)

----------------------------------------------------------------------------
(* Properties of every entry point (checked under SpecEntry)               *)

\* C9: in every reachable state, in every search entry point, the values
\* LIMIT and OFFSET are compiled from satisfy page >= 1 and
\* 1 <= page size <= 100.
C9_PageBounds ==
    /\ q.page >= 1
    /\ q.page_size >= 1
    /\ q.page_size <= 100
    /\ rw.called => /\ rw.page >= 1
                    /\ rw.limit >= 1
                    /\ rw.limit <= 100

====
